---- MODULE Spec2Model ----
(***************************************************************************)
(* A model of spectogram-compare (speccomp): the STFT engine               *)
(* (track_to_spec / mt_track_to_spec_thread), the two comparators, the     *)
(* parallel spectrogram coordinator (mt_track_to_spec) and the directory   *)
(* importers (import_from_directory / mt_import_from_directory).           *)
(*                                                                         *)
(* Numbers.  f32 values are modelled exactly on inputs where f32 is exact: *)
(* samples are small integers, and fft_size is drawn from FftSizes, for    *)
(* which cos(2*pi*k/N) is a multiple of 1/2.  The Hann coefficients are    *)
(* kept times 4 (Hann4), the real part of an FFT bin times 8, and a        *)
(* spectrogram value (re^2) times 64.                                      *)
(***************************************************************************)
EXTENDS Integers, Sequences, FiniteSets, TLC

VARIABLES
    \* ---- STFT engine (one run of track_to_spec or of the worker) ----
    variant,            \* "serial": track_to_spec, "mt": mt_track_to_spec_thread
    fft_size,
    source,             \* the TrackBuffer, interleaved [L0,R0,L1,R1,...]
    samples_processed,
    frames_generated,
    left, right,        \* the spectrogram buffers (values times 64)
    slots,              \* per frame, per slot: the per-channel sample index read, or Pad
    last_percentage,
    sent,               \* what the worker sent on tx, in order
    stft_pc,            \* "loop" | "done" | "panicked"
    \* ---- Comparators (one call of each on the same arguments) ----
    cmp_bins,           \* the `bins` argument
    spec_a, spec_b,     \* the StereoSpectogram arguments: [left |-> .., right |-> ..]
    time_res,           \* what time_compare_spectogram returned, or NotCalled
    freq_res,           \* what freq_compare_spectogram returned, or NotCalled
    \* ---- mt_track_to_spec: the coordinator and its worker threads ----
    mt_fft,             \* fft_size
    input_tracks,       \* the TrackBuffers, in input order
    workers,            \* per thread: [pc, samples_processed, last_percentage]
    buffers,            \* per thread: the StereoSpectogram behind its Arc<Mutex<..>>
    mutex,              \* per thread: [held, poisoned] of that Mutex
    arc_count,          \* per thread: strong count of that Arc
    receivers,          \* per thread: the messages sent and not yet received
    tx_alive,           \* per thread: the Sender has not been dropped
    handles,            \* per thread: handles[i].is_finished()
    shared_buffers,     \* the coordinator's Vec of Arcs (as thread indices)
    thread_progress,
    threads_finished,
    overall_progress,
    mt_i,               \* the coordinator's loop index
    spectograms,        \* the Vec being returned
    mt_pc,              \* "while" | "for" | "collect" | "returned" | "panicked"
    \* ---- import_from_directory / mt_import_from_directory ----
    imp_variant,        \* "serial": import_from_directory, "mt": mt_import_from_directory
    dir_readable,       \* whether read_dir(path) succeeds
    dir_names,          \* the names of the directory's entries
    dir_contents,       \* the entries read_dir's iterator has not yielded yet, in its order
    files,              \* per stem file name: how that file decodes
    paths,
    hits,
    is_original,
    decoders,           \* per decode thread: [pc, pkt, sample_count, has_temp, sent]
    track_bufs,         \* per decode thread: the TrackBuffer behind its Arc<Mutex<..>>
    imp_mutex,          \* per decode thread: whether that Mutex is held
    imp_receivers,      \* per decode thread: the messages sent and not yet received
    imp_tx_alive,       \* per decode thread: the Sender has not been dropped
    imp_handles,        \* per decode thread: handles[i].is_finished()
    samples_decoded,
    imp_threads_finished,
    imp_i,              \* the coordinator's loop index
    tracks_interleaved_vec,
    imp_pc,             \* where the import function is
    imp_result,         \* what it returned, or NotCalled
    \* ---- main ----
    args_len,           \* args.len()
    arg3,               \* args[3], when there is one
    in_parallel,
    main_input_tracks,  \* main's input_tracks
    spectograms_ret,
    spectograms_1,
    spectograms_2,
    graphdata_time,     \* per comparison: its label and the two spectrograms compared
    graphdata_freq,
    main_i,             \* the index of the loop main is in
    main_out,           \* what main printed about failures
    main_pc,            \* where main is
    \* ---- the weight table of freq_compare_spectogram ----
    w_bins,             \* bins
    w_i,                \* the loop index i
    w                   \* the vector w

stftVars == <<variant, fft_size, source, samples_processed, frames_generated,
              left, right, slots, last_percentage, sent, stft_pc>>

cmpVars == <<cmp_bins, spec_a, spec_b, time_res, freq_res>>

mtVars == <<mt_fft, input_tracks, workers, buffers, mutex, arc_count, receivers,
            tx_alive, handles, shared_buffers, thread_progress, threads_finished,
            overall_progress, mt_i, spectograms, mt_pc>>

impVars == <<imp_variant, dir_readable, dir_names, dir_contents, files, paths, hits,
             is_original, decoders, track_bufs, imp_mutex, imp_receivers, imp_tx_alive,
             imp_handles, samples_decoded, imp_threads_finished, imp_i,
             tracks_interleaved_vec, imp_pc, imp_result>>

mainVars == <<args_len, arg3, in_parallel, main_input_tracks, spectograms_ret,
              spectograms_1, spectograms_2, graphdata_time, graphdata_freq, main_i,
              main_out, main_pc>>

weightVars == <<w_bins, w_i, w>>

vars == <<stftVars, cmpVars, mtVars, impVars, mainVars, weightVars>>

\* What each component leaves alone.
notStft == <<cmpVars, mtVars, impVars, mainVars, weightVars>>
notCmp == <<stftVars, mtVars, impVars, mainVars, weightVars>>
notMt == <<stftVars, cmpVars, impVars, mainVars, weightVars>>
notImp == <<stftVars, cmpVars, mtVars, mainVars, weightVars>>
notMain == <<stftVars, cmpVars, mtVars, impVars, weightVars>>
notWeights == <<stftVars, cmpVars, mtVars, impVars, mainVars>>

----------------------------------------------------------------------------
\* Bounds of the model

\* Longest TrackBuffer (interleaved samples) the STFT specification draws.
MaxSamples == 9

\* Sample values of the drawn TrackBuffers.
SampleVals == {0, 1}

\* The FFT lengths the STFT specification draws: the even ones are the valid ones,
\* 3 stands for an odd fft_size, which the functions accept.
FftSizes == {2, 3, 4}

\* Longest spectrogram channel (in values) the comparator specification draws.
MaxSpecLen == 4

\* The <<left, right>> value pairs of the drawn spectrograms.
CmpCells == {<<0, 0>>, <<1, 3>>}

\* The `bins` arguments the comparator specification draws.
CmpBins == {1, 2}

\* Most input tracks of one mt_track_to_spec call.
MaxTracks == 3

\* The longest `input_tracks` of the runs checked for termination.
MaxPolledTracks == 2

\* The TrackBuffers mt_track_to_spec is given: an empty one, and two whose
\* spectrograms differ (1 and 2 frames at fft_size 2).
MtTracks == {<<>>, <<1, 0>>, <<0, 1, 1, 1>>}

\* The fft_size arguments mt_track_to_spec is given.
MtFftSizes == {2}

----------------------------------------------------------------------------
\* Helpers

\* 0-based read of a sequence, as a Rust slice index.
At(s, i) == s[i + 1]

Min(a, b) == IF a < b THEN a ELSE b

\* All sequences over S of length 0..n.
SeqsUpTo(S, n) == UNION {[1..k -> S] : k \in 0..n}

\* A slot of a window that was zero-padded rather than read from the buffer.
Pad == -1

----------------------------------------------------------------------------
\* The Hann window and the FFT

\* 2*cos(2*pi*k/n), exact for n in {1, 2, 3, 4, 6}.
Cos2(n, k) ==
    LET m == k % n IN
    CASE n = 1 -> 2
      [] n = 2 -> IF m = 0 THEN 2 ELSE -2
      [] n = 3 -> IF m = 0 THEN 2 ELSE -1
      [] n = 4 -> IF m = 0 THEN 2 ELSE IF m = 2 THEN -2 ELSE 0
      [] n = 6 -> IF m = 0 THEN 2 ELSE IF m = 3 THEN -2
                  ELSE IF m \in {1, 5} THEN 1 ELSE -1

\* hann_window times 4: for n in -window_edge..window_edge, a0 - a1*cos(2*PI*n/window_size).
\* Its length is 2*(fft_size/2).
Hann4(fft) ==
    LET window_edge == fft \div 2 IN
    [j \in 1..(2 * window_edge) |-> 2 - Cos2(fft, (j - 1) - window_edge)]

\* The forward FFT's real part of bin k, times 2 per Cos2: sum of win[n]*cos(2*pi*k*n/N).
RECURSIVE ReSum(_, _, _, _)
ReSum(win, fft, k, n) ==
    IF n = 0 THEN 0
    ELSE ReSum(win, fft, k, n - 1) + win[n] * Cos2(fft, k * (n - 1))

\* Mutant: the loop over the kept bins runs to fft_size/2 inclusive.
PowerBins_KeepNyquist(win, fft) ==
    [b \in 1..(fft \div 2 + 1) |->
        LET re == ReSum(win, fft, b - 1, fft) IN re * re]

\* window_buffer[i].re.powi(2) for the kept bins 0..fft_size/2-1.
PowerBins(win, fft) ==
    [b \in 1..(fft \div 2) |->
        LET re == ReSum(win, fft, b - 1, fft) IN re * re]

----------------------------------------------------------------------------
\* One iteration of the STFT loop, as pure operators

buffer_duration(src) == Len(src) \div 2

\* Whether this window exceeds the input buffer (the `true` arm of the match).
WillPad(src, fft, sp) == sp + fft > buffer_duration(src)

\* Mutant: the padded window drops the remaining samples.
SlotsRead_DropRemainder(src, fft, sp) ==
    IF WillPad(src, fft, sp) THEN 0 ELSE fft

\* How many slots of the window are read from the buffer.
SlotsRead(src, fft, sp) ==
    IF WillPad(src, fft, sp) THEN buffer_duration(src) % fft ELSE fft

\* The per-channel sample index each slot reads (i + samples_processed), or Pad.
WindowSlots(src, fft, sp) ==
    [j \in 1..fft |-> IF j - 1 < SlotsRead(src, fft, sp) THEN (j - 1) + sp ELSE Pad]

\* Every source[idx], source[idx+1] and hann_window[i] the iteration reads exists.
ReadsInBounds(src, fft, sp) ==
    \A i \in 0..(SlotsRead(src, fft, sp) - 1) :
        /\ 2 * (i + sp) + 1 < Len(src)
        /\ i < Len(Hann4(fft))

\* window_buffer_l (ch = 0) or window_buffer_r (ch = 1) before the FFT, times 4.
WindowBuffer(src, fft, sp, ch) ==
    [j \in 1..fft |->
        LET k == WindowSlots(src, fft, sp)[j] IN
        IF k = Pad THEN 0 ELSE At(src, 2 * k + ch) * Hann4(fft)[j]]

\* The fft_size/2 values one iteration appends to left (ch = 0) or right (ch = 1).
FramePower(src, fft, sp, ch) == PowerBins(WindowBuffer(src, fft, sp, ch), fft)

\* Mutant: the percentage counts the samples of one more (two-sample) window.
NewPercentage_CountsWindow(src, sp) == ((sp + 2) * 100) \div buffer_duration(src)

\* new_percentage of the worker; the division panics when buffer_duration is 0.
NewPercentage(src, sp) == (sp * 100) \div buffer_duration(src)

\* `if samples_processed > buffer_duration { break; }`
BreakNow(sp, dur) == sp > dur

----------------------------------------------------------------------------
\* f32 arithmetic of the comparators: exact rationals <<num, den>> (den > 0, lowest
\* terms), and the two values a division by zero produces, written with den = 0.

NaN == <<0, 0>>
Inf == <<1, 0>>

Abs(x) == IF x < 0 THEN -x ELSE x

RECURSIVE Gcd(_, _)
Gcd(a, b) == IF b = 0 THEN a ELSE Gcd(b, a % b)

Q(n, d) ==
    LET g == Gcd(Abs(n), d) IN
    IF n = 0 THEN <<0, 1>> ELSE <<n \div g, d \div g>>

QInt(n) == <<n, 1>>
QZero == <<0, 1>>

IsNum(x) == x[2] # 0

QAdd(x, y) ==
    IF x = NaN \/ y = NaN THEN NaN
    ELSE IF x = Inf \/ y = Inf THEN Inf
    ELSE LET g == Gcd(x[2], y[2]) IN
         Q(x[1] * (y[2] \div g) + y[1] * (x[2] \div g), (x[2] \div g) * y[2])

QSub(x, y) == QAdd(x, <<-y[1], y[2]>>)

QAbs(x) == <<Abs(x[1]), x[2]>>

QMul(x, y) == Q(x[1] * y[1], x[2] * y[2])

\* x / n for a count n >= 0 cast to f32: 0.0/0.0 is NaN, a positive over 0.0 is inf.
QDivN(x, n) ==
    IF x = NaN THEN NaN
    ELSE IF x = Inf THEN Inf
    ELSE IF n = 0 THEN (IF x[1] = 0 THEN NaN ELSE Inf)
    ELSE Q(x[1], x[2] * n)

----------------------------------------------------------------------------
\* cos in fixed point (radians times WScale), for the frequency weights

WScale == 10000
Pi10k == 31416

\* cos(x) * WScale for x in [0, pi/2] (times WScale), by the Taylor series to x^8.
CosSeries(x) ==
    LET x2 == (x * x) \div WScale
        t2 == (x2 * x2) \div WScale
        t3 == (t2 * x2) \div WScale
        t4 == ((t3 \div 10) * x2) \div (WScale \div 10)
    IN WScale - (x2 \div 2) + (t2 \div 24) - (t3 \div 720) + (t4 \div 40320)

\* cos(x) * WScale for any x >= 0 (times WScale).
CosFix(x) ==
    LET r == x % (2 * Pi10k)
        h == IF r > Pi10k THEN 2 * Pi10k - r ELSE r
    IN IF 2 * h > Pi10k THEN -CosSeries(Pi10k - h) ELSE CosSeries(h)

\* w[i] of freq_compare_spectogram:
\*   w[i] = 1.0 - cos((i*PI + 370.0)/bins);  w[i] = 1.0 - w[i]^2 / 4.0
Weight(i, bins) ==
    LET c == CosFix((i * Pi10k + 370 * WScale) \div bins)
        u == WScale - c
    IN Q(WScale - (u * u) \div (4 * WScale), WScale)

----------------------------------------------------------------------------
\* The comparators

NotCalled == [ok |-> "not called"]

frame_count(spec, bins) == Len(spec.left) \div bins
\* Mutant: one usable frame too few.
usable_frames_OffByOne(bins, a, b) ==
    LET m == Min(Len(a.left) \div bins, Len(b.left) \div bins) IN
    IF m > 0 THEN m - 1 ELSE 0

usable_frames(bins, a, b) == Min(frame_count(a, bins), frame_count(b, bins))

\* Mutant: only input a is checked.
BinCheck_OnlyA(bins, a, b) ==
    IF Len(a.left) % bins # 0 THEN "a" ELSE "ok"

\* `if spec_x_l.len() % bins_us != 0 { return Err(..) }`, a's check first.
BinCheck(bins, a, b) ==
    IF Len(a.left) % bins # 0 THEN "a"
    ELSE IF Len(b.left) % bins # 0 THEN "b"
    ELSE "ok"

\* (it_l.next() + it_r.next()) / 2.0 at position `it` of the iterators.
Stereo(spec, it) == Q(At(spec.left, it) + At(spec.right, it), 2)

\* (a_st - b_st).abs() at position `it`.
AbsDiff(a, b, it) == QAbs(QSub(Stereo(a, it), Stereo(b, it)))

\* frame_error of frame f before the division: the sum over the first n bins.
RECURSIVE FrameSum(_, _, _, _, _)
FrameSum(bins, a, b, f, n) ==
    IF n = 0 THEN QZero
    ELSE QAdd(FrameSum(bins, a, b, f, n - 1), AbsDiff(a, b, f * bins + (n - 1)))

\* Mutant: the frame's sum is not divided by the bin count.
FrameError_NoDivide(bins, a, b, f) == FrameSum(bins, a, b, f, bins)

FrameError(bins, a, b, f) == QDivN(FrameSum(bins, a, b, f, bins), bins)

\* mean_error after frames 0..n-1 were added.
RECURSIVE TimeSum(_, _, _, _)
TimeSum(bins, a, b, n) ==
    IF n = 0 THEN QZero
    ELSE QAdd(TimeSum(bins, a, b, n - 1), FrameError(bins, a, b, n - 1))

time_compare_spectogram(bins, a, b) ==
    LET uf == usable_frames(bins, a, b) IN
    IF BinCheck(bins, a, b) # "ok"
    THEN [ok |-> "Err", input |-> BinCheck(bins, a, b)]
    ELSE [ok |-> "Ok",
          vec |-> [f \in 1..uf |-> FrameError(bins, a, b, f - 1)],
          mean |-> QDivN(TimeSum(bins, a, b, uf), uf),
          frames_used |-> uf,
          warned |-> frame_count(a, bins) # frame_count(b, bins)]

\* mean_err_vec[bin] after frames 0..n-1 were accumulated.
RECURSIVE BinSum(_, _, _, _, _)
BinSum(bins, a, b, bin, n) ==
    IF n = 0 THEN QZero
    ELSE QAdd(BinSum(bins, a, b, bin, n - 1),
              QMul(AbsDiff(a, b, (n - 1) * bins + bin), Weight(bin, bins)))

\* Mutant: the bin's sum is divided by the bin count, not by the frame count.
BinError_DividesByBins(bins, a, b, bin) ==
    LET uf == usable_frames(bins, a, b) IN
    QDivN(BinSum(bins, a, b, bin, uf), bins)

BinError(bins, a, b, bin) ==
    LET uf == usable_frames(bins, a, b) IN
    QDivN(BinSum(bins, a, b, bin, uf), uf)

RECURSIVE FreqSum(_, _, _, _)
FreqSum(bins, a, b, n) ==
    IF n = 0 THEN QZero
    ELSE QAdd(FreqSum(bins, a, b, n - 1), BinError(bins, a, b, n - 1))

freq_compare_spectogram(bins, a, b) ==
    LET uf == usable_frames(bins, a, b) IN
    IF BinCheck(bins, a, b) # "ok"
    THEN [ok |-> "Err", input |-> BinCheck(bins, a, b)]
    ELSE [ok |-> "Ok",
          vec |-> [i \in 1..bins |-> BinError(bins, a, b, i - 1)],
          mean |-> QDivN(FreqSum(bins, a, b, bins), bins),
          frames_used |-> uf,
          warned |-> frame_count(a, bins) # frame_count(b, bins)]

\* A StereoSpectogram from a sequence of <<left, right>> pairs.
SpecOf(cells) ==
    [left |-> [i \in 1..Len(cells) |-> cells[i][1]],
     right |-> [i \in 1..Len(cells) |-> cells[i][2]]]

CmpInit ==
    /\ cmp_bins \in CmpBins
    /\ \E ca \in SeqsUpTo(CmpCells, MaxSpecLen) : spec_a = SpecOf(ca)
    /\ \E cb \in SeqsUpTo(CmpCells, MaxSpecLen) : spec_b = SpecOf(cb)
    /\ time_res = NotCalled
    /\ freq_res = NotCalled

CmpIdle ==
    /\ cmp_bins = 1
    /\ spec_a = SpecOf(<<>>)
    /\ spec_b = SpecOf(<<>>)
    /\ time_res = NotCalled
    /\ freq_res = NotCalled

TimeCompare ==
    /\ time_res = NotCalled
    /\ time_res' = time_compare_spectogram(cmp_bins, spec_a, spec_b)
    /\ UNCHANGED <<cmp_bins, spec_a, spec_b, freq_res>>
    /\ UNCHANGED notCmp

FreqCompare ==
    /\ freq_res = NotCalled
    /\ freq_res' = freq_compare_spectogram(cmp_bins, spec_a, spec_b)
    /\ UNCHANGED <<cmp_bins, spec_a, spec_b, time_res>>
    /\ UNCHANGED notCmp

CmpNext == TimeCompare \/ FreqCompare


----------------------------------------------------------------------------
\* The STFT engine, one action per loop iteration

StftInit ==
    /\ variant \in {"serial", "mt"}
    /\ fft_size \in FftSizes
    /\ source \in SeqsUpTo(SampleVals, MaxSamples)
    /\ samples_processed = 0
    /\ frames_generated = 0
    /\ left = <<>>
    /\ right = <<>>
    /\ slots = <<>>
    /\ last_percentage = 0
    /\ sent = <<>>
    /\ stft_pc = "loop"

\* The worker's progress division by a zero buffer_duration: the thread panics.
StftPercentPanic ==
    /\ stft_pc = "loop"
    /\ variant = "mt"
    /\ buffer_duration(source) = 0
    /\ stft_pc' = "panicked"
    /\ UNCHANGED <<variant, fft_size, source, samples_processed, frames_generated,
                   left, right, slots, last_percentage, sent>>
    /\ UNCHANGED notStft

\* An index past the end of the buffer or of the window table: the thread panics.
StftIndexPanic ==
    /\ stft_pc = "loop"
    /\ ~(variant = "mt" /\ buffer_duration(source) = 0)
    /\ ~ReadsInBounds(source, fft_size, samples_processed)
    /\ stft_pc' = "panicked"
    /\ UNCHANGED <<variant, fft_size, source, samples_processed, frames_generated,
                   left, right, slots, last_percentage, sent>>
    /\ UNCHANGED notStft

\* One full iteration: progress report, window fill, FFT, append, advance, break test.
StftFrame ==
    /\ stft_pc = "loop"
    /\ ~(variant = "mt" /\ buffer_duration(source) = 0)
    /\ ReadsInBounds(source, fft_size, samples_processed)
    /\ LET np == IF variant = "mt" THEN NewPercentage(source, samples_processed) ELSE 0
           report == variant = "mt" /\ np > last_percentage
           sp2 == samples_processed + fft_size
           stop == BreakNow(sp2, buffer_duration(source))
           sent1 == IF report THEN Append(sent, np) ELSE sent
       IN /\ last_percentage' = IF report THEN np ELSE last_percentage
          /\ left' = left \o FramePower(source, fft_size, samples_processed, 0)
          /\ right' = right \o FramePower(source, fft_size, samples_processed, 1)
          /\ slots' = Append(slots, WindowSlots(source, fft_size, samples_processed))
          /\ samples_processed' = sp2
          /\ frames_generated' = frames_generated + 1
          /\ stft_pc' = IF stop THEN "done" ELSE "loop"
          /\ sent' = IF stop /\ variant = "mt" THEN Append(sent1, 100) ELSE sent1
    /\ UNCHANGED <<variant, fft_size, source>>
    /\ UNCHANGED notStft

StftIdle ==
    /\ variant = "serial"
    /\ fft_size = 2
    /\ source = <<>>
    /\ samples_processed = 0
    /\ frames_generated = 0
    /\ left = <<>>
    /\ right = <<>>
    /\ slots = <<>>
    /\ last_percentage = 0
    /\ sent = <<>>
    /\ stft_pc = "idle"

StftNext == StftPercentPanic \/ StftIndexPanic \/ StftFrame

----------------------------------------------------------------------------
\* track_to_spec as a function of its arguments: the frames of the do-while loop,
\* from samples_processed = sp on.

RECURSIVE FramesFrom(_, _, _, _)
FramesFrom(src, fft, sp, ch) ==
    FramePower(src, fft, sp, ch) \o
        (IF BreakNow(sp + fft, buffer_duration(src)) THEN <<>>
         ELSE FramesFrom(src, fft, sp + fft, ch))

track_to_spec(fft, src) ==
    [left |-> FramesFrom(src, fft, 0, 0), right |-> FramesFrom(src, fft, 0, 1)]

----------------------------------------------------------------------------
\* mt_track_to_spec: n worker threads and the polling coordinator

input_count == Len(input_tracks)
Threads == 1..input_count

\* StereoSpectogram::new()
NewSpectogram == [left |-> <<>>, right |-> <<>>]

MtInit ==
    /\ mt_fft \in MtFftSizes
    /\ input_tracks \in SeqsUpTo(MtTracks, MaxTracks)
    /\ workers = [i \in Threads |-> [pc |-> "start", samples_processed |-> 0,
                                     last_percentage |-> 0]]
    /\ buffers = [i \in Threads |-> NewSpectogram]
    /\ mutex = [i \in Threads |-> [held |-> FALSE, poisoned |-> FALSE]]
    /\ arc_count = [i \in Threads |-> 2]
    /\ receivers = [i \in Threads |-> <<>>]
    /\ tx_alive = [i \in Threads |-> TRUE]
    /\ handles = [i \in Threads |-> FALSE]
    /\ shared_buffers = [i \in Threads |-> i]
    /\ thread_progress = [i \in Threads |-> 0]
    /\ threads_finished = 0
    /\ overall_progress = 0
    /\ mt_i = 0
    /\ spectograms = <<>>
    /\ mt_pc = "while"

MtIdle ==
    /\ mt_fft = 2
    /\ input_tracks = <<>>
    /\ workers = <<>>
    /\ buffers = <<>>
    /\ mutex = <<>>
    /\ arc_count = <<>>
    /\ receivers = <<>>
    /\ tx_alive = <<>>
    /\ handles = <<>>
    /\ shared_buffers = <<>>
    /\ thread_progress = <<>>
    /\ threads_finished = 0
    /\ overall_progress = 0
    /\ mt_i = 0
    /\ spectograms = <<>>
    /\ mt_pc = "idle"

coordVars == <<shared_buffers, thread_progress, threads_finished, overall_progress,
               mt_i, spectograms, mt_pc>>

\* ---- the worker thread mt_track_to_spec_thread, thread i ----

\* `output_buffer.lock().unwrap()`
WorkerLock(i) ==
    /\ workers[i].pc = "start"
    /\ ~mutex[i].held
    /\ mutex' = [mutex EXCEPT ![i].held = TRUE]
    /\ workers' = [workers EXCEPT ![i].pc = "loop"]
    /\ UNCHANGED <<mt_fft, input_tracks, buffers, arc_count, receivers, tx_alive, handles>>
    /\ UNCHANGED coordVars
    /\ UNCHANGED notMt

\* One loop iteration: progress report, window fill, FFT, append, advance, break test.
WorkerFrame(i) ==
    LET src == input_tracks[i]
        sp == workers[i].samples_processed
    IN
    /\ workers[i].pc = "loop"
    /\ buffer_duration(src) # 0
    /\ ReadsInBounds(src, mt_fft, sp)
    /\ LET np == NewPercentage(src, sp)
           report == np > workers[i].last_percentage
       IN /\ receivers' = IF report /\ tx_alive[i]
                          THEN [receivers EXCEPT ![i] = Append(@, np)]
                          ELSE receivers
          /\ buffers' = [buffers EXCEPT
                            ![i].left = @ \o FramePower(src, mt_fft, sp, 0),
                            ![i].right = @ \o FramePower(src, mt_fft, sp, 1)]
          /\ workers' = [workers EXCEPT
                            ![i].last_percentage = IF report THEN np ELSE @,
                            ![i].samples_processed = sp + mt_fft,
                            ![i].pc = IF BreakNow(sp + mt_fft, buffer_duration(src))
                                      THEN "send100" ELSE "loop"]
    /\ UNCHANGED <<mt_fft, input_tracks, mutex, arc_count, tx_alive, handles>>
    /\ UNCHANGED coordVars
    /\ UNCHANGED notMt

\* `let _ = tx.send(100);`
WorkerSend100(i) ==
    /\ workers[i].pc = "send100"
    /\ receivers' = [receivers EXCEPT ![i] = Append(@, 100)]
    /\ workers' = [workers EXCEPT ![i].pc = "return"]
    /\ UNCHANGED <<mt_fft, input_tracks, buffers, mutex, arc_count, tx_alive, handles>>
    /\ UNCHANGED coordVars
    /\ UNCHANGED notMt

\* The function returns: the guard unlocks the mutex, tx and both Arc clones drop.
WorkerReturn(i) ==
    /\ workers[i].pc = "return"
    /\ mutex' = [mutex EXCEPT ![i].held = FALSE]
    /\ tx_alive' = [tx_alive EXCEPT ![i] = FALSE]
    /\ arc_count' = [arc_count EXCEPT ![i] = 1]
    /\ workers' = [workers EXCEPT ![i].pc = "exited"]
    /\ UNCHANGED <<mt_fft, input_tracks, buffers, receivers, handles>>
    /\ UNCHANGED coordVars
    /\ UNCHANGED notMt

\* The thread panics (division by a zero buffer_duration, or an index out of
\* bounds): unwinding drops the guard, which poisons the mutex, then tx and the Arcs.
WorkerPanic(i) ==
    LET src == input_tracks[i] IN
    /\ workers[i].pc = "loop"
    /\ \/ buffer_duration(src) = 0
       \/ ~ReadsInBounds(src, mt_fft, workers[i].samples_processed)
    /\ mutex' = [mutex EXCEPT ![i] = [held |-> FALSE, poisoned |-> TRUE]]
    /\ tx_alive' = [tx_alive EXCEPT ![i] = FALSE]
    /\ arc_count' = [arc_count EXCEPT ![i] = 1]
    /\ workers' = [workers EXCEPT ![i].pc = "exited"]
    /\ UNCHANGED <<mt_fft, input_tracks, buffers, receivers, handles>>
    /\ UNCHANGED coordVars
    /\ UNCHANGED notMt

\* The thread's main function is over: is_finished() is true from here on.
WorkerFinish(i) ==
    /\ workers[i].pc = "exited"
    /\ handles' = [handles EXCEPT ![i] = TRUE]
    /\ workers' = [workers EXCEPT ![i].pc = "finished"]
    /\ UNCHANGED <<mt_fft, input_tracks, buffers, mutex, arc_count, receivers, tx_alive>>
    /\ UNCHANGED coordVars
    /\ UNCHANGED notMt

\* ---- the coordinator ----

threadVars == <<mt_fft, input_tracks, workers, buffers, mutex, arc_count, tx_alive, handles>>

\* `while threads_finished < input_count { threads_finished = 0; overall_progress = 0; ..`
MtWhile_NoReset ==
    /\ mt_pc = "while"
    /\ IF threads_finished < input_count
       THEN /\ mt_i' = 0
            /\ mt_pc' = "for"
            /\ UNCHANGED <<threads_finished, overall_progress>>
       ELSE /\ mt_i' = 0
            /\ mt_pc' = "collect"
            /\ UNCHANGED <<threads_finished, overall_progress>>
    /\ UNCHANGED <<shared_buffers, thread_progress, spectograms, receivers>>
    /\ UNCHANGED threadVars
    /\ UNCHANGED notMt

MtWhile ==
    /\ mt_pc = "while"
    /\ IF threads_finished < input_count
       THEN /\ threads_finished' = 0
            /\ overall_progress' = 0
            /\ mt_i' = 0
            /\ mt_pc' = "for"
       ELSE /\ mt_i' = 0
            /\ mt_pc' = "collect"
            /\ UNCHANGED <<threads_finished, overall_progress>>
    /\ UNCHANGED <<shared_buffers, thread_progress, spectograms, receivers>>
    /\ UNCHANGED threadVars
    /\ UNCHANGED notMt

\* `if handles[i].is_finished() { threads_finished += 1; continue; }`
MtPollFinished_NoCount ==
    /\ mt_pc = "for"
    /\ mt_i < input_count
    /\ handles[mt_i + 1]
    /\ mt_i' = mt_i + 1
    /\ UNCHANGED <<shared_buffers, thread_progress, threads_finished, overall_progress,
                   spectograms, mt_pc, receivers>>
    /\ UNCHANGED threadVars
    /\ UNCHANGED notMt

MtPollFinished ==
    /\ mt_pc = "for"
    /\ mt_i < input_count
    /\ handles[mt_i + 1]
    /\ threads_finished' = threads_finished + 1
    /\ mt_i' = mt_i + 1
    /\ UNCHANGED <<shared_buffers, thread_progress, overall_progress, spectograms,
                   mt_pc, receivers>>
    /\ UNCHANGED threadVars
    /\ UNCHANGED notMt

\* `receivers[i].recv()` returns Ok(r): a message is waiting.
MtPollRecvOk ==
    /\ mt_pc = "for"
    /\ mt_i < input_count
    /\ ~handles[mt_i + 1]
    /\ receivers[mt_i + 1] # <<>>
    /\ LET r == Head(receivers[mt_i + 1]) IN
          /\ thread_progress' = [thread_progress EXCEPT ![mt_i + 1] = r]
          /\ overall_progress' = overall_progress + r
    /\ receivers' = [receivers EXCEPT ![mt_i + 1] = Tail(@)]
    /\ mt_i' = mt_i + 1
    /\ UNCHANGED <<shared_buffers, threads_finished, spectograms, mt_pc>>
    /\ UNCHANGED threadVars
    /\ UNCHANGED notMt

\* `receivers[i].recv()` returns Err: the channel is empty and its Sender is dropped.
MtPollRecvErr ==
    /\ mt_pc = "for"
    /\ mt_i < input_count
    /\ ~handles[mt_i + 1]
    /\ receivers[mt_i + 1] = <<>>
    /\ ~tx_alive[mt_i + 1]
    /\ thread_progress' = [thread_progress EXCEPT ![mt_i + 1] = -1]
    /\ mt_i' = mt_i + 1
    /\ UNCHANGED <<shared_buffers, threads_finished, overall_progress, spectograms,
                   mt_pc, receivers>>
    /\ UNCHANGED threadVars
    /\ UNCHANGED notMt

\* The end of the for loop: print the state, sleep, test the while condition again.
MtEndPass ==
    /\ mt_pc = "for"
    /\ mt_i = input_count
    /\ mt_pc' = "while"
    /\ UNCHANGED <<shared_buffers, thread_progress, threads_finished, overall_progress,
                   mt_i, spectograms, receivers>>
    /\ UNCHANGED threadVars
    /\ UNCHANGED notMt

\* Whether `Arc::try_unwrap(popped_arc).unwrap()` and `into_inner().unwrap()` succeed.
CanTake(i) == arc_count[i] = 1 /\ ~mutex[i].poisoned

\* The spectrogram moved out of buffer i, with the thread it came from.
Taken(i) == [left |-> buffers[i].left, right |-> buffers[i].right, from |-> i]

\* One iteration of the return loop: pop the last Arc, unwrap it, push the spectrogram.
MtCollect ==
    /\ mt_pc = "collect"
    /\ mt_i < input_count
    /\ LET popped == shared_buffers[Len(shared_buffers)] IN
          /\ CanTake(popped)
          /\ spectograms' = Append(spectograms, Taken(popped))
    /\ shared_buffers' = SubSeq(shared_buffers, 1, Len(shared_buffers) - 1)
    /\ mt_i' = mt_i + 1
    /\ UNCHANGED <<thread_progress, threads_finished, overall_progress, mt_pc, receivers>>
    /\ UNCHANGED threadVars
    /\ UNCHANGED notMt

\* An unwrap of the return loop fails: mt_track_to_spec panics.
MtCollectPanic ==
    /\ mt_pc = "collect"
    /\ mt_i < input_count
    /\ ~CanTake(shared_buffers[Len(shared_buffers)])
    /\ mt_pc' = "panicked"
    /\ UNCHANGED <<shared_buffers, thread_progress, threads_finished, overall_progress,
                   mt_i, spectograms, receivers>>
    /\ UNCHANGED threadVars
    /\ UNCHANGED notMt

\* `return spectograms;`
MtReturn ==
    /\ mt_pc = "collect"
    /\ mt_i = input_count
    /\ mt_pc' = "returned"
    /\ UNCHANGED <<shared_buffers, thread_progress, threads_finished, overall_progress,
                   mt_i, spectograms, receivers>>
    /\ UNCHANGED threadVars
    /\ UNCHANGED notMt

MtNext ==
    \/ \E i \in Threads : WorkerLock(i)
    \/ \E i \in Threads : WorkerFrame(i)
    \/ \E i \in Threads : WorkerSend100(i)
    \/ \E i \in Threads : WorkerReturn(i)
    \/ \E i \in Threads : WorkerPanic(i)
    \/ \E i \in Threads : WorkerFinish(i)
    \/ MtWhile
    \/ MtPollFinished
    \/ MtPollRecvOk
    \/ MtPollRecvErr
    \/ MtEndPass
    \/ MtCollect
    \/ MtCollectPanic
    \/ MtReturn

\* The steps of the calling thread of mt_track_to_spec.
MtCoordinator ==
    \/ MtWhile
    \/ MtPollFinished
    \/ MtPollRecvOk
    \/ MtPollRecvErr
    \/ MtEndPass
    \/ MtCollect
    \/ MtCollectPanic
    \/ MtReturn

\* The steps of worker thread i of mt_track_to_spec.
MtWorker(i) ==
    \/ WorkerLock(i)
    \/ WorkerFrame(i)
    \/ WorkerSend100(i)
    \/ WorkerReturn(i)
    \/ WorkerPanic(i)
    \/ WorkerFinish(i)

----------------------------------------------------------------------------
\* Directories and files, as the importers see them

required_files == <<"bass.mp3", "drums.mp3", "vocals.mp3", "other.mp3">>

Stems == {required_files[k] : k \in 1..4}

\* Names a directory may hold.  "notes.txt" stands for every entry that is skipped:
\* another name, or an entry whose read failed (`Err(_) => { continue; }`).
DirNames == {"bass.mp3", "drums.mp3", "vocals.mp3", "other.mp3", ".original", "notes.txt"}

\* The orders in which a directory holding the names S may enumerate them.
Listings(S) ==
    {l \in [1..Cardinality(S) -> S] : \A a, b \in 1..Cardinality(S) : a # b => l[a] # l[b]}

Position_Reversed(name) ==
    IF \E k \in 1..4 : required_files[k] = name
    THEN 4 - (CHOOSE k \in 1..4 : required_files[k] = name)
    ELSE -1

\* `req_files_it.position(|&x| x == item_name)`: the 0-based index, or -1 for None.
Position(name) ==
    IF \E k \in 1..4 : required_files[k] = name
    THEN (CHOOSE k \in 1..4 : required_files[k] = name) - 1
    ELSE -1

\* A packet decodes to `n` samples (n >= 0) or fails to decode (DecodeErr).
DecodeErr == -1

\* How a file behaves: File::open, the probe, tracks().len(), the codec, and the
\* packets next_packet() yields before it returns Err.
File(o, pr, tr, co, pk) == [open |-> o, probe |-> pr, tracks |-> tr, codec |-> co, packets |-> pk]

PlainFile == File(TRUE, TRUE, 1, TRUE, <<64>>)

SpecialFiles ==
    { File(TRUE, TRUE, 1, TRUE, <<64, 64, 64, 32>>),
      File(FALSE, TRUE, 1, TRUE, <<64>>),
      File(TRUE, FALSE, 1, TRUE, <<64>>),
      File(TRUE, TRUE, 2, TRUE, <<64>>),
      File(TRUE, TRUE, 1, FALSE, <<64>>),
      File(TRUE, TRUE, 1, TRUE, <<>>),
      File(TRUE, TRUE, 1, TRUE, <<DecodeErr, 64>>),
      File(TRUE, TRUE, 1, TRUE, <<64, DecodeErr, 64>>) }

\* The files of a directory that holds the four stems: at most one of them is
\* special, and only in a directory that holds nothing but the four stems.
FileSets(names) ==
    {fs \in [Stems -> {PlainFile} \cup SpecialFiles] :
        /\ \A a, b \in Stems : fs[a] # PlainFile /\ fs[b] # PlainFile => a = b
        /\ (\E a \in Stems : fs[a] # PlainFile) => Cardinality(names) = 4}

\* The samples packet p of the file `name` decodes to, as one chunk of a TrackBuffer.
Chunk(name, p, n) == <<name, p, n>>

RECURSIVE BufLen(_)
BufLen(buf) == IF buf = <<>> THEN 0 ELSE buf[1][3] + BufLen(Tail(buf))

\* The error code the worker sends before it takes the lock, or 0.
EarlyError(f) ==
    IF ~f.open THEN -1
    ELSE IF ~f.probe THEN -2
    ELSE IF f.tracks # 1 THEN -3
    ELSE IF ~f.codec THEN -4
    ELSE 0

\* The second loop breaks at packet p: next_packet() is Err, or the packet fails to decode.
LoopBreaks(pkts, p) == IF p > Len(pkts) THEN TRUE ELSE pkts[p] = DecodeErr

\* `if sample_count % 64 == 0 { tx.send(sample_count as i32); }`
ReportsProgress(sample_count) == sample_count % 64 = 0

----------------------------------------------------------------------------
\* import_track as a function of the file (the serial decoder adapter)

\* The second loop from packet p on: it stops at the first packet that fails.
RECURSIVE DecodeRest(_, _, _, _)
DecodeRest(name, pkts, p, has_temp) ==
    IF LoopBreaks(pkts, p) THEN <<>>
    ELSE (IF has_temp THEN <<Chunk(name, p, pkts[p])>> ELSE <<>>)
         \o DecodeRest(name, pkts, p + 1, has_temp)

\* Both loops: the first packet, then the rest.
DecodeAll(name, pkts) ==
    IF pkts[1] = DecodeErr THEN DecodeRest(name, pkts, 2, FALSE)
    ELSE <<Chunk(name, 1, pkts[1])>> \o DecodeRest(name, pkts, 2, TRUE)

import_track(name, f) ==
    IF ~f.open THEN [ok |-> "Err", err |-> "open"]
    ELSE IF ~f.probe THEN [ok |-> "Err", err |-> "probe"]
    ELSE IF f.tracks # 1 THEN [ok |-> "Err", err |-> "tracks"]
    ELSE IF ~f.codec THEN [ok |-> "Err", err |-> "codec"]
    ELSE IF f.packets = <<>> THEN [ok |-> "Err", err |-> "first packet"]
    ELSE IF BufLen(DecodeAll(name, f.packets)) = 0 THEN [ok |-> "Err", err |-> "nothing decoded"]
    ELSE [ok |-> "Ok", buffer |-> DecodeAll(name, f.packets)]

----------------------------------------------------------------------------
\* The importers

None == "None"

ImpInit ==
    /\ imp_variant \in {"serial", "mt"}
    /\ dir_readable \in BOOLEAN
    /\ dir_names \in SUBSET DirNames
    /\ dir_contents \in Listings(dir_names)
    /\ files = <<>>
    /\ paths = [k \in 1..4 |-> None]
    /\ hits = 0
    /\ is_original = FALSE
    /\ decoders = <<>>
    /\ track_bufs = <<>>
    /\ imp_mutex = <<>>
    /\ imp_receivers = <<>>
    /\ imp_tx_alive = <<>>
    /\ imp_handles = <<>>
    /\ samples_decoded = <<>>
    /\ imp_threads_finished = 0
    /\ imp_i = 0
    /\ tracks_interleaved_vec = <<>>
    /\ imp_pc = "read_dir"
    /\ imp_result = NotCalled

ImpIdle ==
    /\ imp_variant = "serial"
    /\ dir_readable = FALSE
    /\ dir_names = {}
    /\ dir_contents = <<>>
    /\ files = <<>>
    /\ paths = <<>>
    /\ hits = 0
    /\ is_original = FALSE
    /\ decoders = <<>>
    /\ track_bufs = <<>>
    /\ imp_mutex = <<>>
    /\ imp_receivers = <<>>
    /\ imp_tx_alive = <<>>
    /\ imp_handles = <<>>
    /\ samples_decoded = <<>>
    /\ imp_threads_finished = 0
    /\ imp_i = 0
    /\ tracks_interleaved_vec = <<>>
    /\ imp_pc = "idle"
    /\ imp_result = NotCalled

dirVars == <<imp_variant, dir_readable, dir_names>>
scanVars == <<dir_contents, paths, hits, is_original>>
decoderVars == <<decoders, track_bufs, imp_mutex, imp_tx_alive, imp_handles>>
pollVars == <<samples_decoded, imp_threads_finished, imp_i, tracks_interleaved_vec,
              imp_pc, imp_result>>

\* `std::fs::read_dir(path)`: Err returns the directory access error.
ImpReadDir ==
    /\ imp_pc = "read_dir"
    /\ IF dir_readable
       THEN imp_pc' = "scan" /\ UNCHANGED imp_result
       ELSE imp_pc' = "returned" /\ imp_result' = [ok |-> "Err", err |-> "read_dir"]
    /\ UNCHANGED <<samples_decoded, imp_threads_finished, imp_i, tracks_interleaved_vec>>
    /\ UNCHANGED <<dirVars, scanVars, decoderVars, files, imp_receivers>>
    /\ UNCHANGED notImp

ImpScanEntry_CountsMarker ==
    /\ imp_pc = "scan"
    /\ dir_contents # <<>>
    /\ LET item_name == Head(dir_contents)
           index == Position(item_name)
       IN IF item_name = ".original"
          THEN /\ is_original' = TRUE
               /\ hits' = hits + 1
               /\ dir_contents' = Tail(dir_contents)
               /\ UNCHANGED paths
          ELSE IF index # -1
          THEN /\ paths' = [paths EXCEPT ![index + 1] = item_name]
               /\ hits' = hits + 1
               /\ dir_contents' = IF hits + 1 = 4 THEN <<>> ELSE Tail(dir_contents)
               /\ UNCHANGED is_original
          ELSE /\ dir_contents' = Tail(dir_contents)
               /\ UNCHANGED <<paths, hits, is_original>>
    /\ UNCHANGED <<dirVars, decoderVars, pollVars, files, imp_receivers>>
    /\ UNCHANGED notImp

\* One iteration of `for e in dir_contents`.
ImpScanEntry ==
    /\ imp_pc = "scan"
    /\ dir_contents # <<>>
    /\ LET item_name == Head(dir_contents)
           index == Position(item_name)
       IN IF item_name = ".original"
          THEN /\ is_original' = TRUE
               /\ dir_contents' = Tail(dir_contents)
               /\ UNCHANGED <<paths, hits>>
          ELSE IF index # -1
          THEN /\ paths' = [paths EXCEPT ![index + 1] = item_name]
               /\ hits' = hits + 1
               \* `if hits == 4 { break; }` drops the iterator
               /\ dir_contents' = IF hits + 1 = 4 THEN <<>> ELSE Tail(dir_contents)
               /\ UNCHANGED is_original
          ELSE /\ dir_contents' = Tail(dir_contents)
               /\ UNCHANGED <<paths, hits, is_original>>
    /\ UNCHANGED <<dirVars, decoderVars, pollVars, files, imp_receivers>>
    /\ UNCHANGED notImp

\* `if hits != 4 { return Err(.. found {}/4 ..) }`
ImpMissingStems ==
    /\ imp_pc = "scan"
    /\ dir_contents = <<>>
    /\ hits # 4
    /\ imp_pc' = "returned"
    /\ imp_result' = [ok |-> "Err", err |-> "missing stems", found |-> hits]
    /\ UNCHANGED <<samples_decoded, imp_threads_finished, imp_i, tracks_interleaved_vec>>
    /\ UNCHANGED <<dirVars, scanVars, decoderVars, files, imp_receivers>>
    /\ UNCHANGED notImp

\* mt_import_from_directory: one thread per path, each with its buffer and channel.
ImpSpawn ==
    /\ imp_pc = "scan"
    /\ dir_contents = <<>>
    /\ hits = 4
    /\ imp_variant = "mt"
    /\ files' \in FileSets(dir_names)
    /\ decoders' = [i \in 1..4 |-> [pc |-> "start", pkt |-> 1, sample_count |-> 0,
                                    has_temp |-> FALSE, sent |-> <<>>]]
    /\ track_bufs' = [i \in 1..4 |-> <<>>]
    /\ imp_mutex' = [i \in 1..4 |-> FALSE]
    /\ imp_receivers' = [i \in 1..4 |-> <<>>]
    /\ imp_tx_alive' = [i \in 1..4 |-> TRUE]
    /\ imp_handles' = [i \in 1..4 |-> FALSE]
    /\ samples_decoded' = [i \in 1..4 |-> <<-100, 0>>]
    /\ imp_threads_finished' = 0
    /\ imp_pc' = "while"
    /\ UNCHANGED <<imp_i, tracks_interleaved_vec, imp_result>>
    /\ UNCHANGED <<dirVars, scanVars>>
    /\ UNCHANGED notImp

\* import_from_directory: the loop over the paths starts.
ImpSerialStart ==
    /\ imp_pc = "scan"
    /\ dir_contents = <<>>
    /\ hits = 4
    /\ imp_variant = "serial"
    /\ files' \in FileSets(dir_names)
    /\ imp_i' = 0
    /\ imp_pc' = "serial"
    /\ UNCHANGED <<samples_decoded, imp_threads_finished, tracks_interleaved_vec, imp_result>>
    /\ UNCHANGED <<dirVars, scanVars, decoderVars, imp_receivers>>
    /\ UNCHANGED notImp

\* One iteration of `for filename in paths`: import_track, push or return its error.
ImpSerialTrack ==
    /\ imp_pc = "serial"
    /\ imp_i < 4
    /\ LET r == import_track(paths[imp_i + 1], files[paths[imp_i + 1]]) IN
          IF r.ok = "Ok"
          THEN /\ tracks_interleaved_vec' = Append(tracks_interleaved_vec, r.buffer)
               /\ imp_i' = imp_i + 1
               /\ UNCHANGED <<imp_pc, imp_result>>
          ELSE /\ imp_pc' = "returned"
               /\ imp_result' = [ok |-> "Err", err |-> r.err]
               /\ UNCHANGED <<imp_i, tracks_interleaved_vec>>
    /\ UNCHANGED <<samples_decoded, imp_threads_finished>>
    /\ UNCHANGED <<dirVars, scanVars, decoderVars, files, imp_receivers>>
    /\ UNCHANGED notImp

\* `return Result::Ok((tracks_interleaved_vec, is_original))` of import_from_directory
ImpSerialReturn ==
    /\ imp_pc = "serial"
    /\ imp_i = 4
    /\ imp_pc' = "returned"
    /\ imp_result' = [ok |-> "Ok", tracks |-> tracks_interleaved_vec, is_original |-> is_original]
    /\ UNCHANGED <<samples_decoded, imp_threads_finished, imp_i, tracks_interleaved_vec>>
    /\ UNCHANGED <<dirVars, scanVars, decoderVars, files, imp_receivers>>
    /\ UNCHANGED notImp

\* ---- the decode thread mt_import_track, thread i ----

fixedImp == <<dirVars, scanVars, pollVars, files>>

FileOf_First(i) == files[paths[1]]

\* The file thread i was given the path of.
FileOf(i) == files[paths[i]]

\* Open, probe, track count, codec: the first failure sends its code and returns;
\* otherwise the thread locks its buffer.
DecStart_NoReturn(i) ==
    /\ decoders[i].pc = "start"
    /\ IF EarlyError(FileOf(i)) # 0
       THEN /\ imp_receivers' = [imp_receivers EXCEPT ![i] = Append(@, EarlyError(FileOf(i)))]
            /\ decoders' = [decoders EXCEPT ![i].pc = "first",
                                            ![i].sent = Append(@, EarlyError(FileOf(i)))]
            /\ UNCHANGED imp_mutex
       ELSE /\ ~imp_mutex[i]
            /\ imp_mutex' = [imp_mutex EXCEPT ![i] = TRUE]
            /\ decoders' = [decoders EXCEPT ![i].pc = "first"]
            /\ UNCHANGED imp_receivers
    /\ UNCHANGED <<track_bufs, imp_tx_alive, imp_handles>>
    /\ UNCHANGED fixedImp
    /\ UNCHANGED notImp

DecStart(i) ==
    /\ decoders[i].pc = "start"
    /\ IF EarlyError(FileOf(i)) # 0
       THEN /\ imp_receivers' = [imp_receivers EXCEPT ![i] = Append(@, EarlyError(FileOf(i)))]
            /\ decoders' = [decoders EXCEPT ![i].pc = "return",
                                            ![i].sent = Append(@, EarlyError(FileOf(i)))]
            /\ UNCHANGED imp_mutex
       ELSE /\ ~imp_mutex[i]
            /\ imp_mutex' = [imp_mutex EXCEPT ![i] = TRUE]
            /\ decoders' = [decoders EXCEPT ![i].pc = "first"]
            /\ UNCHANGED imp_receivers
    /\ UNCHANGED <<track_bufs, imp_tx_alive, imp_handles>>
    /\ UNCHANGED fixedImp
    /\ UNCHANGED notImp

\* The first loop: next_packet() Err sends -5 and returns; a decoded packet creates
\* temp_buffer and is appended; a packet that fails to decode is dropped.
DecFirst_NoCount(i) ==
    LET pkts == FileOf(i).packets IN
    /\ decoders[i].pc = "first"
    /\ IF pkts = <<>>
       THEN /\ imp_receivers' = [imp_receivers EXCEPT ![i] = Append(@, -5)]
            /\ decoders' = [decoders EXCEPT ![i].pc = "return", ![i].sent = Append(@, -5)]
            /\ UNCHANGED track_bufs
       ELSE IF pkts[1] = DecodeErr
       THEN /\ decoders' = [decoders EXCEPT ![i].pc = "loop", ![i].pkt = 2]
            /\ UNCHANGED <<track_bufs, imp_receivers>>
       ELSE /\ track_bufs' = [track_bufs EXCEPT ![i] = Append(@, Chunk(paths[i], 1, pkts[1]))]
            /\ decoders' = [decoders EXCEPT ![i].pc = "loop", ![i].pkt = 2,
                                            ![i].has_temp = TRUE]
            /\ UNCHANGED imp_receivers
    /\ UNCHANGED <<imp_mutex, imp_tx_alive, imp_handles>>
    /\ UNCHANGED fixedImp
    /\ UNCHANGED notImp

DecFirst(i) ==
    LET pkts == FileOf(i).packets IN
    /\ decoders[i].pc = "first"
    /\ IF pkts = <<>>
       THEN /\ imp_receivers' = [imp_receivers EXCEPT ![i] = Append(@, -5)]
            /\ decoders' = [decoders EXCEPT ![i].pc = "return", ![i].sent = Append(@, -5)]
            /\ UNCHANGED track_bufs
       ELSE IF pkts[1] = DecodeErr
       THEN /\ decoders' = [decoders EXCEPT ![i].pc = "loop", ![i].pkt = 2]
            /\ UNCHANGED <<track_bufs, imp_receivers>>
       ELSE /\ track_bufs' = [track_bufs EXCEPT ![i] = Append(@, Chunk(paths[i], 1, pkts[1]))]
            /\ decoders' = [decoders EXCEPT ![i].pc = "loop", ![i].pkt = 2,
                                            ![i].has_temp = TRUE,
                                            ![i].sample_count = @ + pkts[1]]
            /\ UNCHANGED imp_receivers
    /\ UNCHANGED <<imp_mutex, imp_tx_alive, imp_handles>>
    /\ UNCHANGED fixedImp
    /\ UNCHANGED notImp

\* The second loop, a packet that decodes: append it and report every 64 samples.
DecPacket(i) ==
    LET pkts == FileOf(i).packets
        p == decoders[i].pkt
    IN
    /\ decoders[i].pc = "loop"
    /\ p <= Len(pkts)
    /\ pkts[p] # DecodeErr
    /\ IF decoders[i].has_temp
       THEN LET count == decoders[i].sample_count + pkts[p] IN
            /\ track_bufs' = [track_bufs EXCEPT ![i] = Append(@, Chunk(paths[i], p, pkts[p]))]
            /\ decoders' = [decoders EXCEPT
                                ![i].pkt = p + 1,
                                ![i].sample_count = count,
                                ![i].sent = IF ReportsProgress(count) THEN Append(@, count) ELSE @]
            /\ imp_receivers' = IF ReportsProgress(count)
                                THEN [imp_receivers EXCEPT ![i] = Append(@, count)]
                                ELSE imp_receivers
       ELSE /\ decoders' = [decoders EXCEPT ![i].pkt = p + 1]
            /\ UNCHANGED <<track_bufs, imp_receivers>>
    /\ UNCHANGED <<imp_mutex, imp_tx_alive, imp_handles>>
    /\ UNCHANGED fixedImp
    /\ UNCHANGED notImp

\* The second loop breaks (no packet left, or one fails to decode), then
\* `tx.send(sample_count as i32); tx.send(sample_count as i32);`
DecSendCount(i) ==
    /\ decoders[i].pc = "loop"
    /\ LoopBreaks(FileOf(i).packets, decoders[i].pkt)
    /\ imp_receivers' = [imp_receivers EXCEPT
                            ![i] = @ \o <<decoders[i].sample_count, decoders[i].sample_count>>]
    /\ decoders' = [decoders EXCEPT
                        ![i].pc = "return",
                        ![i].sent = @ \o <<decoders[i].sample_count, decoders[i].sample_count>>]
    /\ UNCHANGED <<track_bufs, imp_mutex, imp_tx_alive, imp_handles>>
    /\ UNCHANGED fixedImp
    /\ UNCHANGED notImp

\* The function returns: the guard (if taken) unlocks the mutex and tx drops.
DecReturn(i) ==
    /\ decoders[i].pc = "return"
    /\ imp_mutex' = [imp_mutex EXCEPT ![i] = FALSE]
    /\ imp_tx_alive' = [imp_tx_alive EXCEPT ![i] = FALSE]
    /\ decoders' = [decoders EXCEPT ![i].pc = "exited"]
    /\ UNCHANGED <<track_bufs, imp_receivers, imp_handles>>
    /\ UNCHANGED fixedImp
    /\ UNCHANGED notImp

\* The thread's main function is over: is_finished() is true from here on.
DecFinish(i) ==
    /\ decoders[i].pc = "exited"
    /\ imp_handles' = [imp_handles EXCEPT ![i] = TRUE]
    /\ decoders' = [decoders EXCEPT ![i].pc = "finished"]
    /\ UNCHANGED <<track_bufs, imp_mutex, imp_receivers, imp_tx_alive>>
    /\ UNCHANGED fixedImp
    /\ UNCHANGED notImp

\* ---- the polling loop of mt_import_from_directory ----

\* `while threads_finished < 4 {`: threads_finished is not reset.
ImpWhile ==
    /\ imp_pc = "while"
    /\ imp_i' = 0
    /\ imp_pc' = IF imp_threads_finished < 4 THEN "for" ELSE "copy"
    /\ UNCHANGED <<samples_decoded, imp_threads_finished, tracks_interleaved_vec, imp_result>>
    /\ UNCHANGED <<dirVars, scanVars, decoderVars, files, imp_receivers>>
    /\ UNCHANGED notImp

\* `if handles[i].is_finished() { threads_finished += 1; continue; }`
ImpPollFinished ==
    /\ imp_pc = "for"
    /\ imp_i < 4
    /\ imp_handles[imp_i + 1]
    /\ imp_threads_finished' = imp_threads_finished + 1
    /\ imp_i' = imp_i + 1
    /\ UNCHANGED <<samples_decoded, tracks_interleaved_vec, imp_pc, imp_result>>
    /\ UNCHANGED <<dirVars, scanVars, decoderVars, files, imp_receivers>>
    /\ UNCHANGED notImp

\* `receivers[i].recv()` returns Ok(r).
ImpPollRecvOk ==
    /\ imp_pc = "for"
    /\ imp_i < 4
    /\ ~imp_handles[imp_i + 1]
    /\ imp_receivers[imp_i + 1] # <<>>
    /\ samples_decoded' = [samples_decoded EXCEPT
                              ![imp_i + 1] = <<@[2], Head(imp_receivers[imp_i + 1])>>]
    /\ imp_receivers' = [imp_receivers EXCEPT ![imp_i + 1] = Tail(@)]
    /\ imp_i' = imp_i + 1
    /\ UNCHANGED <<imp_threads_finished, tracks_interleaved_vec, imp_pc, imp_result>>
    /\ UNCHANGED <<dirVars, scanVars, decoderVars, files>>
    /\ UNCHANGED notImp

\* `receivers[i].recv()` returns Err: the channel is empty and its Sender is dropped.
ImpPollRecvErr ==
    /\ imp_pc = "for"
    /\ imp_i < 4
    /\ ~imp_handles[imp_i + 1]
    /\ imp_receivers[imp_i + 1] = <<>>
    /\ ~imp_tx_alive[imp_i + 1]
    /\ samples_decoded' = [samples_decoded EXCEPT ![imp_i + 1] = <<-6, -6>>]
    /\ imp_threads_finished' = imp_threads_finished + 1
    /\ imp_i' = imp_i + 1
    /\ UNCHANGED <<tracks_interleaved_vec, imp_pc, imp_result>>
    /\ UNCHANGED <<dirVars, scanVars, decoderVars, files, imp_receivers>>
    /\ UNCHANGED notImp

\* The end of the for loop: print the state, sleep, test the while condition again.
ImpEndPass ==
    /\ imp_pc = "for"
    /\ imp_i = 4
    /\ imp_pc' = "while"
    /\ UNCHANGED <<samples_decoded, imp_threads_finished, imp_i, tracks_interleaved_vec,
                   imp_result>>
    /\ UNCHANGED <<dirVars, scanVars, decoderVars, files, imp_receivers>>
    /\ UNCHANGED notImp

\* `shared_buffers[i].lock().unwrap().to_vec()`: waits while the thread holds the lock.
ImpCopy_NoLock ==
    /\ imp_pc = "copy"
    /\ imp_i < 4
    /\ tracks_interleaved_vec' = Append(tracks_interleaved_vec, track_bufs[imp_i + 1])
    /\ imp_i' = imp_i + 1
    /\ UNCHANGED <<samples_decoded, imp_threads_finished, imp_pc, imp_result>>
    /\ UNCHANGED <<dirVars, scanVars, decoderVars, files, imp_receivers>>
    /\ UNCHANGED notImp

ImpCopy ==
    /\ imp_pc = "copy"
    /\ imp_i < 4
    /\ ~imp_mutex[imp_i + 1]
    /\ tracks_interleaved_vec' = Append(tracks_interleaved_vec, track_bufs[imp_i + 1])
    /\ imp_i' = imp_i + 1
    /\ UNCHANGED <<samples_decoded, imp_threads_finished, imp_pc, imp_result>>
    /\ UNCHANGED <<dirVars, scanVars, decoderVars, files, imp_receivers>>
    /\ UNCHANGED notImp

\* `return Result::Ok((tracks_interleaved_vec, is_original))` of mt_import_from_directory
ImpReturn ==
    /\ imp_pc = "copy"
    /\ imp_i = 4
    /\ imp_pc' = "returned"
    /\ imp_result' = [ok |-> "Ok", tracks |-> tracks_interleaved_vec, is_original |-> is_original]
    /\ UNCHANGED <<samples_decoded, imp_threads_finished, imp_i, tracks_interleaved_vec>>
    /\ UNCHANGED <<dirVars, scanVars, decoderVars, files, imp_receivers>>
    /\ UNCHANGED notImp

DecThreads == IF decoders = <<>> THEN {} ELSE 1..4

ImpNext ==
    \/ ImpReadDir
    \/ ImpScanEntry
    \/ ImpMissingStems
    \/ ImpSpawn
    \/ ImpSerialStart
    \/ ImpSerialTrack
    \/ ImpSerialReturn
    \/ \E i \in DecThreads : DecStart(i)
    \/ \E i \in DecThreads : DecFirst(i)
    \/ \E i \in DecThreads : DecPacket(i)
    \/ \E i \in DecThreads : DecSendCount(i)
    \/ \E i \in DecThreads : DecReturn(i)
    \/ \E i \in DecThreads : DecFinish(i)
    \/ ImpWhile
    \/ ImpPollFinished
    \/ ImpPollRecvOk
    \/ ImpPollRecvErr
    \/ ImpEndPass
    \/ ImpCopy
    \/ ImpReturn

\* The steps of decode thread i of mt_import_from_directory.
ImpWorker(i) ==
    \/ DecStart(i)
    \/ DecFirst(i)
    \/ DecPacket(i)
    \/ DecSendCount(i)
    \/ DecReturn(i)
    \/ DecFinish(i)

\* The steps of the calling thread of the two import functions.
ImpCoordinator ==
    \/ ImpReadDir
    \/ ImpScanEntry
    \/ ImpMissingStems
    \/ ImpSpawn
    \/ ImpSerialStart
    \/ ImpSerialTrack
    \/ ImpSerialReturn
    \/ ImpWhile
    \/ ImpPollFinished
    \/ ImpPollRecvOk
    \/ ImpPollRecvErr
    \/ ImpEndPass
    \/ ImpCopy
    \/ ImpReturn

----------------------------------------------------------------------------
\* main: import both sources, compute the spectrograms, compare stem by stem

stem_names == <<"Bass", "Drums", "Volcals", "Other">>

\* What args.len() and args[3] may be.
ArgLens == {2, 3, 4, 5}
Arg3s == {"--serial", "--fast"}

\* The TrackBuffer an importer returned at position `stem` for source `src`;
\* `empty` when it holds no sample.
Track(src, stem, empty) == [source |-> src, stem |-> stem, empty |-> empty]

\* The results an import of source `src` can return.  Only mt_import_from_directory
\* returns Ok with an empty buffer (a stem whose decode thread failed);
\* only import_from_directory returns a decode error.
ImportResults(parallel, src) ==
    {[ok |-> "Err", err |-> e] :
        e \in {"read_dir", "missing stems"} \cup (IF parallel THEN {} ELSE {"decode"})}
    \cup
    {[ok |-> "Ok", tracks |-> [k \in 1..4 |-> Track(src, k - 1, k - 1 = e)]] :
        e \in (IF parallel THEN -1..3 ELSE {-1})}

\* The StereoSpectogram computed from a track.
SpectogramOf(t) == [source |-> t.source, stem |-> t.stem]

RECURSIVE Reverse(_)
Reverse(v) == IF v = <<>> THEN <<>> ELSE Append(Reverse(Tail(v)), Head(v))

\* Mutant: the spectrograms come back in the order of the inputs.
mt_track_to_spec_InOrder(tracks) == [k \in 1..Len(tracks) |-> SpectogramOf(tracks[k])]

\* What mt_track_to_spec returns: shared_buffers popped from the back.
mt_track_to_spec(tracks) == Reverse([k \in 1..Len(tracks) |-> SpectogramOf(tracks[k])])

\* `v.pop().unwrap()`: the last element, and the vector without it.
Last(v) == v[Len(v)]
Front(v) == SubSeq(v, 1, Len(v) - 1)

MainInit ==
    /\ args_len \in ArgLens
    /\ arg3 \in Arg3s
    /\ in_parallel = TRUE
    /\ main_input_tracks = <<>>
    /\ spectograms_ret = <<>>
    /\ spectograms_1 = <<>>
    /\ spectograms_2 = <<>>
    /\ graphdata_time = <<>>
    /\ graphdata_freq = <<>>
    /\ main_i = 0
    /\ main_out = <<>>
    /\ main_pc = "start"

MainIdle ==
    /\ args_len = 0
    /\ arg3 = "--fast"
    /\ in_parallel = TRUE
    /\ main_input_tracks = <<>>
    /\ spectograms_ret = <<>>
    /\ spectograms_1 = <<>>
    /\ spectograms_2 = <<>>
    /\ graphdata_time = <<>>
    /\ graphdata_freq = <<>>
    /\ main_i = 0
    /\ main_out = <<>>
    /\ main_pc = "idle"

argVars == <<args_len, arg3>>
specVars == <<spectograms_ret, spectograms_1, spectograms_2>>
graphVars == <<graphdata_time, graphdata_freq>>

\* The usage check and the --serial flag.
MainArgs ==
    /\ main_pc = "start"
    /\ IF args_len # 3 /\ args_len # 4
       THEN /\ main_pc' = "usage"
            /\ main_out' = Append(main_out, "usage")
            /\ UNCHANGED in_parallel
       ELSE /\ in_parallel' = IF args_len = 4 THEN arg3 # "--serial" ELSE TRUE
            /\ main_pc' = "import1"
            /\ UNCHANGED main_out
    /\ UNCHANGED <<argVars, main_input_tracks, specVars, graphVars, main_i>>
    /\ UNCHANGED notMain

\* Mutant: the error is printed and main goes on.
MainImport_IgnoresError(src) ==
    /\ main_pc = (IF src = 1 THEN "import1" ELSE "import2")
    /\ \E r \in ImportResults(in_parallel, src) :
          IF r.ok = "Ok"
          THEN /\ main_input_tracks' = main_input_tracks \o r.tracks
               /\ main_pc' = (IF src = 1 THEN "import2" ELSE "spectograms")
               /\ UNCHANGED main_out
          ELSE /\ main_out' = Append(main_out, r.err)
               /\ main_pc' = (IF src = 1 THEN "import2" ELSE "spectograms")
               /\ UNCHANGED main_input_tracks
    /\ UNCHANGED <<argVars, in_parallel, specVars, graphVars, main_i>>
    /\ UNCHANGED notMain

\* The import of args[1] (src = 1) or args[2] (src = 2): append the tracks, or
\* print the error and panic.
MainImport(src) ==
    /\ main_pc = (IF src = 1 THEN "import1" ELSE "import2")
    /\ \E r \in ImportResults(in_parallel, src) :
          IF r.ok = "Ok"
          THEN /\ main_input_tracks' = main_input_tracks \o r.tracks
               /\ main_pc' = (IF src = 1 THEN "import2" ELSE "spectograms")
               /\ UNCHANGED main_out
          ELSE /\ main_out' = Append(main_out, r.err)
               /\ main_pc' = "panicked"
               /\ UNCHANGED main_input_tracks
    /\ UNCHANGED <<argVars, in_parallel, specVars, graphVars, main_i>>
    /\ UNCHANGED notMain

\* `true => { mt_track_to_spec(fft_size, input_tracks) }`
MainMtSpectograms ==
    /\ main_pc = "spectograms"
    /\ in_parallel
    /\ \A k \in 1..Len(main_input_tracks) : ~main_input_tracks[k].empty
    /\ spectograms_ret' = mt_track_to_spec(main_input_tracks)
    /\ main_pc' = "unwrap1"
    /\ UNCHANGED <<argVars, in_parallel, main_input_tracks, spectograms_1, spectograms_2,
                   graphVars, main_i, main_out>>
    /\ UNCHANGED notMain

\* mt_track_to_spec panics: the worker of an empty track divides by zero and
\* poisons its mutex.
MainMtSpectogramsPanic ==
    /\ main_pc = "spectograms"
    /\ in_parallel
    /\ \E k \in 1..Len(main_input_tracks) : main_input_tracks[k].empty
    /\ main_pc' = "panicked"
    /\ UNCHANGED <<argVars, in_parallel, main_input_tracks, specVars, graphVars, main_i,
                   main_out>>
    /\ UNCHANGED notMain

\* `for i in &input_tracks { ret.push(track_to_spec(fft_size, i)); }`, one iteration
MainTrackToSpec ==
    /\ main_pc = "spectograms"
    /\ ~in_parallel
    /\ Len(spectograms_ret) < Len(main_input_tracks)
    /\ spectograms_ret' =
          Append(spectograms_ret, SpectogramOf(main_input_tracks[Len(spectograms_ret) + 1]))
    /\ UNCHANGED <<argVars, in_parallel, main_input_tracks, spectograms_1, spectograms_2,
                   graphVars, main_i, main_out, main_pc>>
    /\ UNCHANGED notMain

\* The serial loop is over: `ret`.
MainSerialDone ==
    /\ main_pc = "spectograms"
    /\ ~in_parallel
    /\ Len(spectograms_ret) = Len(main_input_tracks)
    /\ main_pc' = "unwrap1"
    /\ UNCHANGED <<argVars, in_parallel, main_input_tracks, specVars, graphVars, main_i,
                   main_out>>
    /\ UNCHANGED notMain

\* `spectograms_1.push(spectograms_ret.pop().unwrap())`, four times
MainUnwrap1 ==
    /\ main_pc = "unwrap1"
    /\ spectograms_1' = Append(spectograms_1, Last(spectograms_ret))
    /\ spectograms_ret' = Front(spectograms_ret)
    /\ main_pc' = IF Len(spectograms_1) + 1 = 4 THEN "unwrap2" ELSE "unwrap1"
    /\ UNCHANGED <<argVars, in_parallel, main_input_tracks, spectograms_2, graphVars, main_i,
                   main_out>>
    /\ UNCHANGED notMain

\* Mutant: the second group is taken from the front of spectograms_ret.
MainUnwrap2_FromFront ==
    /\ main_pc = "unwrap2"
    /\ spectograms_2' = Append(spectograms_2, Head(spectograms_ret))
    /\ spectograms_ret' = Tail(spectograms_ret)
    /\ main_pc' = IF Len(spectograms_2) + 1 = 4 THEN "time" ELSE "unwrap2"
    /\ UNCHANGED <<argVars, in_parallel, main_input_tracks, spectograms_1, graphVars, main_i,
                   main_out>>
    /\ UNCHANGED notMain

\* `spectograms_2.push(spectograms_ret.pop().unwrap())`, four times
MainUnwrap2 ==
    /\ main_pc = "unwrap2"
    /\ spectograms_2' = Append(spectograms_2, Last(spectograms_ret))
    /\ spectograms_ret' = Front(spectograms_ret)
    /\ main_pc' = IF Len(spectograms_2) + 1 = 4 THEN "time" ELSE "unwrap2"
    /\ UNCHANGED <<argVars, in_parallel, main_input_tracks, spectograms_1, graphVars, main_i,
                   main_out>>
    /\ UNCHANGED notMain

\* What a comparison of iteration i records: the label and the two inputs.
GraphData(i) ==
    [name |-> At(stem_names, i), a |-> At(spectograms_1, i), b |-> At(spectograms_2, i)]

\* `time_compare_spectogram(fft_size/2, &spectograms_1[i], &spectograms_2[i])`; it
\* returns Ok: every spectrogram's length is a multiple of fft_size/2.
MainTimeCompare ==
    /\ main_pc = "time"
    /\ main_i < 4
    /\ graphdata_time' = Append(graphdata_time, GraphData(main_i))
    /\ main_pc' = "freq"
    /\ UNCHANGED <<argVars, in_parallel, main_input_tracks, specVars, graphdata_freq, main_i,
                   main_out>>
    /\ UNCHANGED notMain

\* `freq_compare_spectogram(fft_size/2, &spectograms_1[i], &spectograms_2[i])`
MainFreqCompare ==
    /\ main_pc = "freq"
    /\ graphdata_freq' = Append(graphdata_freq, GraphData(main_i))
    /\ main_i' = main_i + 1
    /\ main_pc' = "time"
    /\ UNCHANGED <<argVars, in_parallel, main_input_tracks, specVars, graphdata_time,
                   main_out>>
    /\ UNCHANGED notMain

\* The means over the four stems and the final table.
MainResults ==
    /\ main_pc = "time"
    /\ main_i = 4
    /\ main_pc' = "done"
    /\ UNCHANGED <<argVars, in_parallel, main_input_tracks, specVars, graphVars, main_i,
                   main_out>>
    /\ UNCHANGED notMain

MainNext ==
    \/ MainArgs
    \/ MainImport(1)
    \/ MainImport(2)
    \/ MainMtSpectograms
    \/ MainMtSpectogramsPanic
    \/ MainTrackToSpec
    \/ MainSerialDone
    \/ MainUnwrap1
    \/ MainUnwrap2
    \/ MainTimeCompare
    \/ MainFreqCompare
    \/ MainResults

----------------------------------------------------------------------------
\* The weight table of freq_compare_spectogram, one loop iteration per step

\* The bins argument main passes: fft_size / 2 with fft_size = 4096.
WeightBins == {2048}

\* x <= y for two f32 numbers.
QLe(x, y) == x[1] * y[2] <= y[1] * x[2]

\* `w.resize(bins as usize, 1.0)`
WeightsInit ==
    /\ w_bins \in WeightBins
    /\ w_i = 0
    /\ w = [k \in 1..w_bins |-> QInt(1)]

WeightsIdle ==
    /\ w_bins = 0
    /\ w_i = 0
    /\ w = <<>>

\* One iteration of `for i in 0..bins as usize`: the two assignments to w[i].
WeightStep ==
    /\ w_bins > 0
    /\ w_i < w_bins
    /\ w' = [w EXCEPT ![w_i + 1] = Weight(w_i, w_bins)]
    /\ w_i' = w_i + 1
    /\ UNCHANGED w_bins
    /\ UNCHANGED notWeights

WeightsNext == WeightStep

----------------------------------------------------------------------------
\* The specifications

InitStft == StftInit /\ CmpIdle /\ MtIdle /\ ImpIdle /\ MainIdle /\ WeightsIdle

SpecStft == InitStft /\ [][StftNext]_vars

\* The STFT loop where the thread that runs it is always scheduled again.
SpecStftFair == InitStft /\ [][StftNext]_vars /\ WF_vars(StftNext)

InitCmp == CmpInit /\ StftIdle /\ MtIdle /\ ImpIdle /\ MainIdle /\ WeightsIdle

SpecCmp == InitCmp /\ [][CmpNext]_vars

InitMt == MtInit /\ StftIdle /\ CmpIdle /\ ImpIdle /\ MainIdle /\ WeightsIdle

SpecMt == InitMt /\ [][MtNext]_vars

\* mt_track_to_spec where the calling thread is always scheduled again; a worker
\* may stop for good at any point (it hangs).
SpecMtCoordFair == InitMt /\ [][MtNext]_vars /\ WF_vars(MtCoordinator)

InitImport == ImpInit /\ StftIdle /\ CmpIdle /\ MtIdle /\ MainIdle /\ WeightsIdle

SpecImport == InitImport /\ [][ImpNext]_vars

\* Both coordinators with their workers: mt_track_to_spec on at most
\* MaxPolledTracks tracks, or one of the import functions.  The calling thread is
\* always scheduled again; nothing is assumed about the workers.
InitCoord ==
    \/ InitMt /\ input_count <= MaxPolledTracks
    \/ InitImport

CoordNext == MtNext \/ ImpNext

SpecCoordFair ==
    InitCoord /\ [][CoordNext]_vars /\ WF_vars(MtCoordinator) /\ WF_vars(ImpCoordinator)

InitMain == MainInit /\ StftIdle /\ CmpIdle /\ MtIdle /\ ImpIdle /\ WeightsIdle

SpecMain == InitMain /\ [][MainNext]_vars

InitWeights == WeightsInit /\ StftIdle /\ CmpIdle /\ MtIdle /\ ImpIdle /\ MainIdle

SpecWeights == InitWeights /\ [][WeightsNext]_vars

----------------------------------------------------------------------------
\* Claims about the STFT engine (checked under SpecStft)

ValidFft == fft_size % 2 = 0

CeilDiv(a, b) == (a + b - 1) \div b

bin_count == fft_size \div 2

\* C5: for every sample buffer with per-channel duration d = len/2 and every valid
\* fft_size, the engine (both variants) outputs exactly ceil(d / fft_size) frames,
\* including when d is an exact multiple of fft_size and when d = 0.
C5_FrameCountIsCeil ==
    (stft_pc = "done" /\ ValidFft) =>
        /\ frames_generated = CeilDiv(buffer_duration(source), fft_size)
        /\ Len(left) = CeilDiv(buffer_duration(source), fft_size) * bin_count

\* C6: after every appended frame and in the returned spectrogram,
\* left.len() == right.len() and both are exact multiples of fft_size/2; at
\* completion both equal (number of frames produced) * (fft_size/2).
C6_LengthsAgree ==
    /\ Len(left) = Len(right)
    /\ Len(left) % bin_count = 0
    /\ Len(left) = frames_generated * bin_count
    /\ stft_pc = "done" => Len(right) = Len(slots) * bin_count

C6_Witness ==
    /\ stft_pc = "done"
    /\ ValidFft
    /\ frames_generated >= 2
    /\ bin_count = 2
    /\ Len(left) = 4

\* The window slot i (0-based) of frame f reads per-channel sample f*fft_size+i
\* when it exists, and is padding otherwise.
ExpectedSlot(f, i) ==
    IF f * fft_size + i < buffer_duration(source) THEN f * fft_size + i ELSE Pad

\* The frame f the claim describes, for channel ch, computed from the whole buffer.
ExpectedFrame(f, ch) ==
    PowerBins([j \in 1..fft_size |->
                  LET k == ExpectedSlot(f, j - 1) IN
                  IF k = Pad THEN 0 ELSE At(source, 2 * k + ch) * Hann4(fft_size)[j]],
              fft_size)

\* C7: consecutive non-overlapping windows with hop fft_size: slot i of frame f is
\* per-channel sample f*fft_size+i (left = interleaved 2k, right = 2k+1) when that
\* sample exists and zero otherwise; every per-channel sample is used in exactly
\* one frame; frames are appended in increasing f.
C7_WindowPartition ==
    ValidFft =>
        /\ \A f \in 0..(Len(slots) - 1) :
              /\ \A i \in 0..(fft_size - 1) : At(At(slots, f), i) = ExpectedSlot(f, i)
              /\ SubSeq(left, f * bin_count + 1, (f + 1) * bin_count) = ExpectedFrame(f, 0)
              /\ SubSeq(right, f * bin_count + 1, (f + 1) * bin_count) = ExpectedFrame(f, 1)
        /\ stft_pc = "done" =>
              \A k \in 0..(buffer_duration(source) - 1) :
                 Cardinality({<<f, i>> \in (0..(Len(slots) - 1)) \X (0..(fft_size - 1)) :
                                 At(At(slots, f), i) = k}) = 1

C7_Witness ==
    /\ stft_pc = "done"
    /\ fft_size = 4
    /\ buffer_duration(source) = 3
    /\ Len(slots) = 1
    /\ At(At(slots, 0), 2) = 2
    /\ At(At(slots, 0), 3) = Pad
    /\ At(source, 5) = 1

\* Every sample of the TrackBuffer is 0.0.
AllZero(v) == \A i \in 1..Len(v) : v[i] = 0

\* C17: for an all-zero sample buffer of any length (length 0 and lengths below
\* one window included) both STFT variants complete without failure and every
\* value of the spectrogram is exactly 0.0.
C17_ZeroInZeroOut ==
    (ValidFft /\ AllZero(source)) =>
        /\ stft_pc # "panicked"
        /\ AllZero(left)
        /\ AllZero(right)

\* C20: the Hann window built for fft_size = N satisfies w[0] = w[N-1] and has its
\* peak, 1.0, at the center index N/2 (Hann4 holds the coefficients times 4).
C20_HannSymmetricPeak ==
    ValidFft =>
        LET hann_window == Hann4(fft_size) IN
        /\ At(hann_window, 0) = At(hann_window, fft_size - 1)
        /\ At(hann_window, fft_size \div 2) = 4
        /\ \A j \in 0..(fft_size - 1) : At(hann_window, j) <= At(hann_window, fft_size \div 2)

\* C28: mt_track_to_spec_thread and track_to_spec are equivalent for every sample
\* buffer (empty and odd-length ones included) and every valid fft_size: the
\* worker completes, and what it leaves in its buffer is exactly what track_to_spec
\* returns for the same input.
C28_WorkerEqualsSerial ==
    (variant = "mt" /\ ValidFft) =>
        /\ stft_pc # "panicked"
        /\ stft_pc = "done" =>
              /\ left = track_to_spec(fft_size, source).left
              /\ right = track_to_spec(fft_size, source).right

\* C29: for every buffer length and every fft_size >= 2, every index the loop
\* reads from the sample buffer (2*(i+samples_processed) and the one after it) and
\* from the window table (i) is within bounds.
C29_ReadsInBounds ==
    stft_pc = "loop" => ReadsInBounds(source, fft_size, samples_processed)

\* The loop has stopped at the first iteration after which samples_processed
\* exceeds the duration, one window per iteration.
StftStopped ==
    /\ stft_pc = "done"
    /\ samples_processed = frames_generated * fft_size
    /\ BreakNow(samples_processed, buffer_duration(source))
    /\ ~BreakNow(samples_processed - fft_size, buffer_duration(source))

\* C30: for every finite buffer and every fft_size >= 2 the STFT loop terminates:
\* samples_processed grows by fft_size per iteration, and the loop stops at the
\* first iteration after which samples_processed > duration.
C30_LoopTerminates == <>StftStopped

\* C32: for a track with at least one sample per channel, every value a
\* spectrogram worker sends on its progress channel is an integer in 0..100, the
\* values sent are non-decreasing, and the last value sent before the worker
\* returns is 100.
C32_ProgressValues ==
    (variant = "mt" /\ buffer_duration(source) >= 1) =>
        /\ \A k \in 1..Len(sent) : sent[k] \in 0..100
        /\ \A k \in 1..(Len(sent) - 1) : sent[k] <= sent[k + 1]
        /\ stft_pc = "done" => (sent # <<>> /\ sent[Len(sent)] = 100)

\* A worker returned after it reported a value below 100, then 100 from the loop
\* (the duration is a multiple of fft_size) and the closing 100.
C32_Witness ==
    /\ variant = "mt"
    /\ stft_pc = "done"
    /\ Len(sent) >= 3
    /\ sent[Len(sent) - 1] = 100
    /\ sent[1] < sent[2]

----------------------------------------------------------------------------
\* Claims about the comparators (checked under SpecCmp)

IsZeroSeq(v) == \A i \in 1..Len(v) : v[i] = QZero

ValidInputs == BinCheck(cmp_bins, spec_a, spec_b) = "ok"

\* C8: comparing a spectrogram against itself yields zero error: for every S whose
\* length is a multiple of bins (including S with zero frames) time_compare returns
\* all-zero per-frame errors with mean_error == 0.0 and freq_compare returns
\* all-zero per-bin errors with mean_error == 0.0.
C8_SelfCompareIsZero ==
    (spec_a = spec_b /\ ValidInputs) =>
        /\ time_res # NotCalled =>
              time_res.ok = "Ok" /\ IsZeroSeq(time_res.vec) /\ time_res.mean = QZero
        /\ freq_res # NotCalled =>
              freq_res.ok = "Ok" /\ IsZeroSeq(freq_res.vec) /\ freq_res.mean = QZero

\* C9: both comparators return an error (bin-count mismatch) and no result whenever
\* the length of spec_a or of spec_b is not an exact multiple of bins.
C9_BinMismatchIsError ==
    (Len(spec_a.left) % cmp_bins # 0 \/ Len(spec_b.left) % cmp_bins # 0) =>
        /\ time_res # NotCalled => time_res.ok = "Err" /\ "vec" \notin DOMAIN time_res
        /\ freq_res # NotCalled => freq_res.ok = "Err" /\ "vec" \notin DOMAIN freq_res

C9_Witness ==
    /\ Len(spec_a.left) % cmp_bins = 0
    /\ Len(spec_b.left) % cmp_bins # 0
    /\ time_res # NotCalled
    /\ time_res.ok = "Err"
    /\ freq_res # NotCalled
    /\ freq_res.ok = "Err"

\* The first n frames of a spectrogram.
Prefix(spec, bins, n) ==
    [left |-> SubSeq(spec.left, 1, n * bins), right |-> SubSeq(spec.right, 1, n * bins)]

MinFrames == Min(Len(spec_a.left) \div cmp_bins, Len(spec_b.left) \div cmp_bins)

\* |(La+Ra)/2 - (Lb+Rb)/2| at bin i of frame f, times 2 (an integer).
Diff2(f, i) ==
    LET k == f * cmp_bins + i + 1 IN
    Abs((spec_a.left[k] + spec_a.right[k]) - (spec_b.left[k] + spec_b.right[k]))

RECURSIVE SumDiff2(_, _)
SumDiff2(f, n) == IF n = 0 THEN 0 ELSE SumDiff2(f, n - 1) + Diff2(f, n - 1)

\* C10: when two valid spectrograms have different frame counts both comparators
\* return Ok and use exactly the first min(count_a, count_b) frames of each: frame f
\* of spec_a is compared with frame f of spec_b, no later frame influences the
\* result, and time_compare returns exactly min(count_a, count_b) per-frame values.
C10_OverlappingPrefix ==
    (ValidInputs /\ Len(spec_a.left) # Len(spec_b.left)) =>
        LET pa == Prefix(spec_a, cmp_bins, MinFrames)
            pb == Prefix(spec_b, cmp_bins, MinFrames)
        IN /\ time_res # NotCalled =>
                /\ time_res.ok = "Ok"
                /\ Len(time_res.vec) = MinFrames
                /\ \A f \in 0..(MinFrames - 1) :
                      At(time_res.vec, f) = Q(SumDiff2(f, cmp_bins), 2 * cmp_bins)
                /\ time_res.vec = time_compare_spectogram(cmp_bins, pa, pb).vec
                /\ time_res.mean = time_compare_spectogram(cmp_bins, pa, pb).mean
           /\ freq_res # NotCalled =>
                /\ freq_res.ok = "Ok"
                /\ freq_res.frames_used = MinFrames
                /\ freq_res.vec = freq_compare_spectogram(cmp_bins, pa, pb).vec
                /\ freq_res.mean = freq_compare_spectogram(cmp_bins, pa, pb).mean

C10_Witness ==
    /\ ValidInputs
    /\ cmp_bins = 2
    /\ Len(spec_a.left) = 4
    /\ Len(spec_b.left) = 2
    /\ spec_a.left[3] = 1
    /\ spec_b.left[1] = 1
    /\ time_res # NotCalled
    /\ freq_res # NotCalled
    /\ time_res.warned
    /\ Len(time_res.vec) = 1
    /\ time_res.mean # QZero

\* The sum over frames 0..n-1 of the frames' sums SumDiff2(f, bins).
RECURSIVE TotalDiff2(_)
TotalDiff2(n) == IF n = 0 THEN 0 ELSE TotalDiff2(n - 1) + SumDiff2(n - 1, cmp_bins)

RECURSIVE ColDiff2(_, _)
ColDiff2(i, n) == IF n = 0 THEN 0 ELSE ColDiff2(i, n - 1) + Diff2(n - 1, i)

\* The sum of the first n values of a vector of f32.
RECURSIVE VecSum(_, _)
VecSum(v, n) == IF n = 0 THEN QZero ELSE QAdd(VecSum(v, n - 1), v[n])

\* C12: for validated inputs with F >= 1 usable frames freq_compare_spectogram
\* returns exactly `bins` values, the i-th being w[i] times the sum over the F
\* usable frames of |(La+Ra)/2 - (Lb+Rb)/2| at bin i, divided by F, and mean_error
\* is the unweighted arithmetic mean of these `bins` values.
C12_FreqCompareValues ==
    (ValidInputs /\ MinFrames >= 1 /\ freq_res # NotCalled) =>
        /\ freq_res.ok = "Ok"
        /\ Len(freq_res.vec) = cmp_bins
        /\ \A i \in 0..(cmp_bins - 1) :
              At(freq_res.vec, i) =
                  Q(Weight(i, cmp_bins)[1] * ColDiff2(i, MinFrames),
                    Weight(i, cmp_bins)[2] * 2 * MinFrames)
        /\ freq_res.mean = QDivN(VecSum(freq_res.vec, cmp_bins), cmp_bins)

C12_Witness ==
    /\ ValidInputs
    /\ cmp_bins = 1
    /\ MinFrames = 3
    /\ freq_res # NotCalled
    /\ freq_res.ok = "Ok"
    /\ ColDiff2(0, 3) = 4
    /\ Weight(0, 1) # QInt(1)
    /\ freq_res.vec = <<Q(Weight(0, 1)[1] * 2, Weight(0, 1)[2] * 3)>>

\* C31: whenever time_compare_spectogram or freq_compare_spectogram returns Ok,
\* the usable frame count it divided by is at least 1: no Ok result is obtained
\* by dividing by a zero frame count.
C31_OkDividesByFrames ==
    /\ (time_res # NotCalled /\ time_res.ok = "Ok") => time_res.frames_used >= 1
    /\ (freq_res # NotCalled /\ freq_res.ok = "Ok") => freq_res.frames_used >= 1

----------------------------------------------------------------------------
\* Claims about mt_track_to_spec (checked under SpecMt)

\* result[k] (0-based) is the spectrogram of input[n-1-k], written by that input's thread.
IsSpecOfInput(k) ==
    LET res == At(spectograms, k)
        j == input_count - 1 - k
    IN /\ res.from = j + 1
       /\ res.left = track_to_spec(mt_fft, At(input_tracks, j)).left
       /\ res.right = track_to_spec(mt_fft, At(input_tracks, j)).right

\* C1: for every list of n input tracks and every interleaving of the n worker
\* threads, mt_track_to_spec returns exactly n spectrograms and result[k] is the
\* spectrogram computed from input[n-1-k].
C1_ReturnsReversed ==
    mt_pc \in {"returned", "panicked"} =>
        /\ mt_pc = "returned"
        /\ Len(spectograms) = input_count
        /\ \A k \in 0..(input_count - 1) : IsSpecOfInput(k)

\* The polling loop of mt_track_to_spec is over.
MtLoopLeft == mt_pc \in {"collect", "returned", "panicked"}

\* C23: mt_track_to_spec leaves its polling loop only after every worker has
\* finished; from then on no worker holds a reference to a result buffer or its
\* lock, so taking the spectrograms out of their Arc and Mutex fails only when a
\* worker panicked.
C23_CollectsAfterAllFinished ==
    MtLoopLeft =>
        /\ \A i \in Threads : handles[i] /\ arc_count[i] = 1 /\ ~mutex[i].held
        /\ mt_pc = "panicked" => \E i \in Threads : mutex[i].poisoned

\* Three workers, none panicked; one was polled while it ran and one was found
\* finished in an earlier pass; all three spectrograms were taken.
C23_Witness ==
    /\ mt_pc = "returned"
    /\ input_count = 3
    /\ Len(spectograms) = 3
    /\ \A i \in Threads : ~mutex[i].poisoned
    /\ \E i \in Threads : thread_progress[i] = 100
    /\ \E i \in Threads : thread_progress[i] = 0

\* Worker i of mt_track_to_spec has not returned and still holds its Sender.
WorkerHoldsSender(i) == i <= input_count /\ tx_alive[i] /\ ~handles[i]

\* The coordinator printed "Thread i is not responding" and recorded -1.
MarkedFailed(i) == i <= Len(thread_progress) /\ thread_progress[i] = -1

\* C24: if a worker stops for good while it still holds its Sender, the
\* coordinator eventually marks it as failed (thread_progress -1) and goes on
\* polling, instead of waiting for it forever.
C24_HungWorkerIsMarked ==
    \A i \in 1..MaxTracks :
        <>[]WorkerHoldsSender(i) => <>MarkedFailed(i)

\* C25: a worker that runs to normal completion is never reported as "not
\* responding": thread_progress -1 is recorded only for a worker that panicked.
C25_CompletedWorkerNotMarked ==
    \A i \in Threads : MarkedFailed(i) => mutex[i].poisoned

----------------------------------------------------------------------------
\* Claims about the importers (checked under SpecImport)

\* The import function was called on a readable directory and has returned.
ImportReturned == imp_pc = "returned" /\ dir_readable

HasAllStems == Stems \subseteq dir_names

\* The file opens, probes, has one track and a codec, and every packet decodes.
Decodes(f) ==
    /\ EarlyError(f) = 0
    /\ f.packets # <<>>
    /\ \A p \in 1..Len(f.packets) : f.packets[p] # DecodeErr

\* Every sample of the file `name`, packet after packet.
AllSamples(name) == [p \in 1..Len(files[name].packets) |-> Chunk(name, p, files[name].packets[p])]

\* C2: when the directory holds the four stem files and all of them decode, both
\* import functions return exactly four buffers, and positions 0..3 hold the
\* decoded samples of bass.mp3, drums.mp3, vocals.mp3 and other.mp3 in that order,
\* whatever the order of the directory listing and of the workers' completion.
C2_StemOrder ==
    (ImportReturned /\ HasAllStems /\ \A name \in Stems : Decodes(files[name])) =>
        /\ imp_result.ok = "Ok"
        /\ Len(imp_result.tracks) = 4
        /\ \A k \in 0..3 : At(imp_result.tracks, k) = AllSamples(At(required_files, k))

C2_Witness ==
    /\ ImportReturned
    /\ imp_variant = "mt"
    /\ dir_names = DirNames
    /\ \A name \in Stems : Decodes(files[name])
    /\ imp_result.ok = "Ok"
    /\ imp_threads_finished > 4
    /\ At(imp_result.tracks, 0) = <<Chunk("bass.mp3", 1, 64)>>
    /\ At(imp_result.tracks, 3) = <<Chunk("other.mp3", 1, 64)>>

\* The file hits a file-open, format-probe, multi-track, unsupported-codec or
\* zero-samples condition.
FailsToDecode(name) ==
    \/ EarlyError(files[name]) # 0
    \/ files[name].packets = <<>>
    \/ BufLen(DecodeAll(name, files[name].packets)) = 0

\* C3: if one of the four stem files hits a file-open, format-probe,
\* unsupported-codec, multi-track or zero-samples condition, the directory import
\* fails as a whole: neither import function returns Ok.
C3_FailedStemFailsImport ==
    (ImportReturned /\ HasAllStems /\ \E name \in Stems : FailsToDecode(name)) =>
        imp_result.ok = "Err"

\* The number of required files the directory holds.
StemsPresent == Cardinality(dir_names \cap Stems)

\* C4: if the directory lacks one of the four stem files, no decode thread is
\* started and no file is decoded, and both import functions return an error that
\* reports the number k (0..3) of required files found (3 when exactly one is missing).
C4_MissingStemsError ==
    ~HasAllStems =>
        /\ decoders = <<>>
        /\ files = <<>>
        /\ tracks_interleaved_vec = <<>>
        /\ ImportReturned =>
              /\ imp_result.ok = "Err"
              /\ imp_result.err = "missing stems"
              /\ imp_result.found = StemsPresent
              /\ imp_result.found \in 0..3

C4_Witness ==
    /\ ImportReturned
    /\ dir_names = DirNames \ {"vocals.mp3"}
    /\ imp_variant = "mt"
    /\ imp_result.ok = "Err"
    /\ imp_result.found = 3
    /\ is_original

\* C14: for a directory that holds the four stems the import returns
\* is_original = true if and only if the directory holds an entry named .original,
\* wherever the listing enumerates that entry.
C14_OriginalFlag ==
    (ImportReturned /\ HasAllStems /\ imp_result.ok = "Ok") =>
        (imp_result.is_original <=> ".original" \in dir_names)

\* Some packet of the file fails to decode.
HasFailingPacket(f) == \E p \in 1..Len(f.packets) : f.packets[p] = DecodeErr

\* Decode thread i went through both loops and sent a positive sample count as its
\* last word.
ReportedSamples(i) ==
    /\ decoders[i].pc \in {"return", "exited", "finished"}
    /\ decoders[i].sample_count > 0

\* C15: if decoding of any packet of the file fails, import_track and the worker
\* mt_import_track report a failure; neither hands over the samples decoded before
\* the failing packet as a successful result.
C15_DecodeErrorIsReported ==
    /\ imp_variant = "serial" =>
          \A k \in 1..Len(tracks_interleaved_vec) : ~HasFailingPacket(files[paths[k]])
    /\ \A i \in DecThreads : ReportedSamples(i) => ~HasFailingPacket(FileOf(i))

\* The file opens and has packets, and decoding it yields no sample.
ZeroSamples(f) ==
    /\ EarlyError(f) = 0
    /\ f.packets # <<>>
    /\ BufLen(DecodeAll("f", f.packets)) = 0

\* C16: whenever the decode of a stem produced zero samples the import reports a
\* failure, in the serial path and in the parallel path: a stem with zero decoded
\* samples is never returned as successfully imported.
C16_ZeroSamplesIsError ==
    (ImportReturned /\ HasAllStems /\ \E name \in Stems : ZeroSamples(files[name])) =>
        imp_result.ok = "Err"

\* Decode thread i has not returned yet: it still holds its Sender.
DecRunning(i) == decoders[i].pc \notin {"exited", "finished"}

\* C21: the polling loop of mt_import_from_directory runs until each of the four
\* decode threads has finished or was marked non-responsive; it is never left
\* while a thread is still running, i.e. a finished thread is counted once.
C21_LoopWaitsForAll ==
    (imp_pc = "copy" /\ imp_i = 0) =>
        /\ imp_threads_finished = 4
        /\ \A i \in DecThreads : ~DecRunning(i)

\* Everything mt_import_track writes to its buffer for the file f named `name`.
WorkerOutput(name, f) ==
    IF EarlyError(f) # 0 \/ f.packets = <<>> THEN <<>> ELSE DecodeAll(name, f.packets)

\* C22: each buffer mt_import_from_directory copies out is the complete content
\* its decode thread writes: buffer i is never copied while thread i is between
\* its first and its last write, nor before thread i started writing.
C22_CopiesFinalBuffers ==
    imp_variant = "mt" =>
        \A k \in 1..Len(tracks_interleaved_vec) :
            tracks_interleaved_vec[k] = WorkerOutput(paths[k], files[paths[k]])

\* The loop was left early (a finished thread counted twice) while the thread of
\* a four-packet file was still running, and its buffer was copied in full.
C22_Witness ==
    /\ imp_variant = "mt"
    /\ imp_pc = "copy"
    /\ \E k \in 1..Len(tracks_interleaved_vec) :
          /\ Len(tracks_interleaved_vec[k]) = 4
          /\ decoders[k].pc # "finished"

\* The values decode thread i has sent so far are non-decreasing.
SentNonDecreasing(i) ==
    \A k \in 1..(Len(decoders[i].sent) - 1) : decoders[i].sent[k] <= decoders[i].sent[k + 1]

\* In a step in which decode thread i sends, every non-negative value it sends is
\* the number of samples in its output buffer.
SendsBufferLength(i) ==
    \A k \in (Len(decoders[i].sent) + 1)..Len(decoders'[i].sent) :
        decoders'[i].sent[k] >= 0 => decoders'[i].sent[k] = BufLen(track_bufs'[i])

\* C33: the values a decode worker sends on its progress channel are
\* non-decreasing, and each non-negative value equals the number of samples the
\* worker has appended to its output buffer at the moment of sending.
C33_ProgressIsSampleCount ==
    /\ [](\A i \in DecThreads : SentNonDecreasing(i))
    /\ [][\A i \in DecThreads : SendsBufferLength(i)]_vars

\* The thread of the four-packet file reported twice from its loop and then sent
\* its closing count twice.
C33_Witness ==
    \E i \in DecThreads : decoders[i].sent = <<128, 192, 224, 224>>

\* Decode thread i has sent a negative value.
SentErrorCode(i) == \E k \in 1..Len(decoders[i].sent) : decoders[i].sent[k] < 0

\* C34: a decode worker that sends a negative error code (-1 to -5) sends it
\* exactly once, as its only and last message, and returns with its output buffer
\* left empty.
C34_ErrorCodeIsOnlyMessage ==
    \A i \in DecThreads :
        SentErrorCode(i) =>
            /\ Len(decoders[i].sent) = 1
            /\ decoders[i].sent[1] \in -5..-1
            /\ decoders[i].pc \in {"return", "exited", "finished"}
            /\ track_bufs[i] = <<>>

\* One thread has finished after sending -5 (its file has no first packet) while
\* another thread has sent a sample count.
C34_Witness ==
    /\ \E i \in DecThreads : decoders[i].sent = <<-5>> /\ decoders[i].pc = "finished"
    /\ \E j \in DecThreads : decoders[j].sent # <<>> /\ decoders[j].sent[1] >= 0

----------------------------------------------------------------------------
\* Claims about both coordinators (checked under SpecCoordFair)

\* Every worker thread that was spawned has returned from its function.
AllWorkersReturned ==
    /\ \A i \in Threads : handles[i] /\ ~mutex[i].poisoned
    /\ \A i \in DecThreads : imp_handles[i]

CoordinatorReturned == mt_pc \in {"idle", "returned"} /\ imp_pc \in {"idle", "returned"}

\* C26: if every worker thread eventually returns, then mt_import_from_directory
\* and mt_track_to_spec eventually return when the calling thread is scheduled
\* fairly: the coordinator neither blocks forever nor polls forever.
C26_CoordinatorReturns == <>[]AllWorkersReturned => <>CoordinatorReturned

\* The parallel import returned although it reported a thread as not responding,
\* and every decode thread has returned.
C26_Witness ==
    /\ imp_variant = "mt"
    /\ imp_pc = "returned"
    /\ imp_result.ok = "Ok"
    /\ \A i \in DecThreads : imp_handles[i]
    /\ \E i \in DecThreads : samples_decoded[i] = <<-6, -6>>

\* Spectrogram worker i aborted; decode thread i returned early with an error code.
WorkerAborted(i) == mutex[i].poisoned
DecoderFailed(i) ==
    /\ decoders[i].pc \in {"return", "exited", "finished"}
    /\ EarlyError(files[paths[i]]) # 0 \/ files[paths[i]].packets = <<>>

\* C27: whatever happens to the other workers (one of them returns early with an
\* error code, or aborts), a worker is never stopped or blocked before it has
\* finished, and what it leaves in its output buffer is what it computes from its
\* own input alone.
C27_SiblingsUnaffected ==
    /\ \A i \in Threads :
          /\ ~handles[i] => ENABLED MtWorker(i)
          /\ (handles[i] /\ ~WorkerAborted(i)) =>
                /\ buffers[i].left = track_to_spec(mt_fft, input_tracks[i]).left
                /\ buffers[i].right = track_to_spec(mt_fft, input_tracks[i]).right
    /\ \A i \in DecThreads :
          /\ ~imp_handles[i] => ENABLED ImpWorker(i)
          /\ decoders[i].pc \in {"return", "exited", "finished"} =>
                track_bufs[i] = WorkerOutput(paths[i], files[paths[i]])

\* The first decode thread failed before it wrote anything, and the last three
\* finished with their whole file in their buffers.
C27_Witness ==
    /\ imp_variant = "mt"
    /\ decoders # <<>>
    /\ DecoderFailed(1)
    /\ \A i \in 2..4 : imp_handles[i] /\ track_bufs[i] = <<Chunk(paths[i], 1, 64)>>

----------------------------------------------------------------------------
\* Claims about main (checked under SpecMain)

\* The comparison recorded at position i is labelled stem_names[i] and compares
\* the spectrograms of stem i of source 1 and of stem i of source 2.
IsStemComparison(g, i) ==
    /\ g.name = At(stem_names, i)
    /\ {g.a, g.b} = {[source |-> 1, stem |-> i], [source |-> 2, stem |-> i]}

\* C13: in parallel and in serial mode the i-th comparison of main (i = 0..3),
\* labelled stem_names[i] and reported at position i, compares the spectrogram of
\* stem i of source 1 with the spectrogram of stem i of source 2.
C13_ComparesStemByStem ==
    /\ \A i \in 0..(Len(graphdata_time) - 1) : IsStemComparison(At(graphdata_time, i), i)
    /\ \A i \in 0..(Len(graphdata_freq) - 1) : IsStemComparison(At(graphdata_freq, i), i)

\* An import returned Err: main printed the error.
ImportFailed == main_out # <<>> /\ main_out # <<"usage">>

\* A spectrogram computation or a comparison has been started.
ComputationStarted ==
    \/ main_pc \in {"unwrap1", "unwrap2", "time", "freq", "done"}
    \/ spectograms_ret # <<>>
    \/ spectograms_1 # <<>>
    \/ spectograms_2 # <<>>
    \/ graphdata_time # <<>>
    \/ graphdata_freq # <<>>

\* C18: if the import of either source directory fails, main reports the error and
\* stops before any spectrogram computation or comparison is started, in parallel
\* and in serial mode.
C18_ImportFailureStops ==
    /\ ImportFailed => main_pc = "panicked" /\ ~ComputationStarted
    /\ ComputationStarted => ~ImportFailed /\ Len(main_input_tracks) = 8

C18_Witness ==
    /\ ~in_parallel
    /\ main_pc = "panicked"
    /\ main_out = <<"missing stems">>
    /\ Len(main_input_tracks) = 4
    /\ ~ComputationStarted


\* The comparison g has one input from each source directory, both from the same
\* stem file name.
SameStemOfBothSources(g) ==
    /\ g.a.stem = g.b.stem
    /\ {g.a.source, g.b.source} = {1, 2}

----------------------------------------------------------------------------
\* Claims about the frequency weights (checked under SpecWeights)

\* C19: for bins = 2048 the weights w[i] = 1 - (1 - cos((i*pi + 370)/bins))^2 / 4
\* that freq_compare_spectogram computes satisfy w[i+1] <= w[i] for every i from
\* 0 to bins-2.
C19_WeightsNonIncreasing ==
    \A i \in 0..(w_i - 2) : QLe(At(w, i + 1), At(w, i))

====
